---- MODULE Spec2Model ----
(***************************************************************************)
(* A model of the protocol translation engine of the AI gateway: the       *)
(* streaming response translators of the AWS Bedrock InvokeModel backends, *)
(* the JSON Schema sanitizers, the error normalizers, the token usage      *)
(* accounting and the tokenize request translators.                        *)
(*                                                                         *)
(* Each subsystem has a specification of its own (SpecStream, SpecSchema,  *)
(* SpecErr, SpecUsage, SpecTok, ...); the variables of the other           *)
(* subsystems stay at their initial values.                                *)
(***************************************************************************)
EXTENDS Integers, Sequences, FiniteSets, TLC

VARIABLES
    tr,            \* the translator of the exchange
    pc,            \* position of the exchange / of the call under study
    stream,        \* o.stream (o.streamParser != nil for the Anthropic translator)
    wire,          \* the upstream event kinds of the exchange, in order
    pending,       \* upstream bytes the host has not handed over yet
    bufferedBody,  \* o.bufferedBody
    out,           \* concatenation of the newBody of every ResponseBody call
    lastBody,      \* newBody of the last ResponseBody call
    calls,         \* number of ResponseBody calls made
    streamingResponseModel, \* o.streamingResponseModel
    respUsage,     \* tokenUsage of the last ResponseBody call
    respModel,     \* responseModel of the last ResponseBody call
    impl,          \* the sanitizer called
    schemaDoc,     \* the schema document handed to the sanitizer
    sanitized,     \* what the sanitizer returned
    again,         \* what the sanitizer returned for the tree it had returned
    respHeaders,   \* the response headers handed to ResponseError
    errBody,       \* the upstream error body handed to ResponseError
    errResult,     \* what ResponseError returned
    usage,         \* the token counts the provider reported
    tokenUsage,    \* the TokenUsage recorded from them
    modelNameOverride, \* o.modelNameOverride of the tokenize translator
    req,           \* the tokenize request handed to RequestBody
    requestModel,  \* o.requestModel of the tokenize translator
    reqResult,     \* what RequestBody returned
    rawBody,       \* the bytes of the client's chat completion request
    bodyBuf,       \* what the buffer that held them holds now
    costConfigured, \* whether cost metrics are configured on the route
    parsed,        \* what ParseBody returned
    attempts,      \* what each RequestBody call of the exchange returned
    upstream,      \* the body of the upstream's non-streaming response
    response       \* what ResponseBody returned for it

streamVars ==
    <<stream, wire, pending, bufferedBody, out, lastBody, calls,
      streamingResponseModel, respUsage, respModel>>
schemaVars == <<impl, schemaDoc, sanitized, again>>
errVars == <<respHeaders, errBody, errResult>>
usageVars == <<usage, tokenUsage>>
tokVars == <<modelNameOverride, req, requestModel, reqResult>>
reqVars == <<rawBody, bodyBuf, costConfigured, parsed, attempts, upstream, response>>
vars == <<tr, pc, streamVars, schemaVars, errVars, usageVars, tokVars, reqVars>>

\* The variables of a subsystem that a specification does not exercise.
StreamIdle ==
    /\ stream = FALSE /\ wire = <<>> /\ pending = <<>> /\ bufferedBody = <<>>
    /\ out = <<>> /\ lastBody = <<>> /\ calls = 0
    /\ streamingResponseModel = "" /\ respUsage = <<>> /\ respModel = ""
SchemaIdle == impl = "-" /\ schemaDoc = <<>> /\ sanitized = <<>> /\ again = <<>>
ErrIdle == respHeaders = <<>> /\ errBody = <<>> /\ errResult = <<>>
UsageIdle == usage = <<>> /\ tokenUsage = <<>>
TokIdle == modelNameOverride = "" /\ req = <<>> /\ requestModel = "" /\ reqResult = <<>>
ReqIdle ==
    /\ rawBody = <<>> /\ bodyBuf = <<>> /\ costConfigured = FALSE
    /\ parsed = <<>> /\ attempts = <<>>
    /\ upstream = <<>> /\ response = <<>>

(***************************************************************************)
(* Bounds of the model.                                                    *)
(***************************************************************************)
\* Upstream events (SSE events or EventStream frames) in one exchange.
MaxFrames == 2
\* Bytes of one EventStream frame (prelude .. message CRC).
FrameLen == 2
\* ResponseBody calls in one exchange.
MaxCalls == 3
\* The largest token count of a usage report.
MaxTokens == 2

(***************************************************************************)
(* Sequences.                                                              *)
(***************************************************************************)
RECURSIVE Flatten(_)
Flatten(ss) == IF ss = <<>> THEN <<>> ELSE Head(ss) \o Flatten(Tail(ss))

Take(s, n) == SubSeq(s, 1, n)
Drop(s, n) == SubSeq(s, n + 1, Len(s))

HasSuffix(s, suf) ==
    /\ Len(s) >= Len(suf)
    /\ SubSeq(s, Len(s) - Len(suf) + 1, Len(s)) = suf

SeqsUpTo(S, n) == UNION {[1..k -> S] : k \in 0..n}

(***************************************************************************)
(* Wire formats.  An SSE text is a sequence of symbols: a "data: " line    *)
(* with its payload (without the line break), an "event: " line followed   *)
(* by its data line, and the line break "\n".  An EventStream frame is     *)
(* FrameLen bytes, each carrying the payload kind and its position in the  *)
(* frame; a decoder accepts only a whole, well-ordered frame.              *)
(***************************************************************************)
NL == [sym |-> "nl", p |-> "-"]
DataLine(p) == [sym |-> "data", p |-> p]
EventDataLines(p) == [sym |-> "event+data", p |-> p]

\* Payload kinds an upstream event may carry: a chat completion chunk, or
\* the literal [DONE].
PayloadKinds == {"chunk", "done"}

\* Further chunks: one that carries "usage", one that carries "model".
ChunkKinds == PayloadKinds \cup {"usage", "model"}

\* Frames whose payload cannot be decoded: the envelope is no JSON, or its
\* "bytes" member is no base64; and a frame that is corrupt as a frame (its
\* checksum does not match).
BadPayloads == {"badjson", "badb64"}
Corrupt == "corrupt"
FrameKinds == ChunkKinds \cup BadPayloads \cup {Corrupt}

\* A counter of metrics.TokenUsage is unset or holds a uint32.
Unset == [set |-> FALSE, n |-> 0]
Set(x) == [set |-> TRUE, n |-> x]
EmptyTokenUsage == [input |-> Unset, output |-> Unset, total |-> Unset, cached |-> Unset]

\* The usage the "usage" chunk reports, as the streaming branches record it
\* (prompt, completion and total tokens; no prompt token details).
ChunkUsage == [input |-> Set(1), output |-> Set(1), total |-> Set(2), cached |-> Unset]

\* The model of the request and the model the "model" chunk names.
RequestModel == "requested-model"
ChunkModel == "served-model"

\* openAI SSE event as sent by an upstream that already speaks SSE.
SSEEvent(p) == <<DataLine(p), NL, NL>>

\* One EventStream frame whose payload is {"bytes": base64(p)}.
FrameBytes(p) ==
    [i \in 1..FrameLen |->
        [sym |-> IF p = Corrupt THEN "garbled" ELSE "frame", p |-> p, i |-> i]]

Translators == {"AwsOpenAI", "AWSInvokeOpenAI", "AWSAnthropic"}

WireBytes(t, w) ==
    Flatten([i \in 1..Len(w) |->
                IF t = "AwsOpenAI" THEN SSEEvent(w[i]) ELSE FrameBytes(w[i])])

(***************************************************************************)
(* eventstream.Decoder.Decode on a reader positioned at the start of data: *)
(* an error when the data ends inside a message or the bytes are not a     *)
(* well-formed message, else the message and the number of bytes read.     *)
(***************************************************************************)
DecodeOk(data) ==
    /\ Len(data) >= FrameLen
    /\ \A i \in 1..FrameLen :
          /\ data[i].sym = "frame"
          /\ data[i].i = i
          /\ data[i].p = data[1].p

\* convertEventStreamToSSE: every decodable message becomes "data: <json>\n\n";
\* the loop ends at the first decode error and what is left of data is dropped.
RECURSIVE convertEventStreamToSSE(_)
convertEventStreamToSSE(data) ==
    IF ~DecodeOk(data) THEN <<>>
    ELSE IF data[1].p \in BadPayloads
    THEN convertEventStreamToSSE(Drop(data, FrameLen))
    ELSE <<DataLine(data[1].p), NL, NL>> \o convertEventStreamToSSE(Drop(data, FrameLen))

\* The payloads of the messages convertEventStreamToSSE decodes, in order.
RECURSIVE DecodedChunks(_)
DecodedChunks(data) ==
    IF ~DecodeOk(data) THEN <<>>
    ELSE IF data[1].p \in BadPayloads THEN DecodedChunks(Drop(data, FrameLen))
    ELSE <<data[1].p>> \o DecodedChunks(Drop(data, FrameLen))

\* tokenUsage of convertEventStreamToSSE: a local value of the call, set
\* from each chunk of data that carries usage.
EventStreamUsage(data) ==
    IF \E i \in DOMAIN DecodedChunks(data) : DecodedChunks(data)[i] = "usage"
    THEN ChunkUsage ELSE EmptyTokenUsage

\* o.streamingResponseModel after convertEventStreamToSSE: every chunk that
\* carries a model stores it.
EventStreamModel(data, model) ==
    IF \E i \in DOMAIN DecodedChunks(data) : DecodedChunks(data)[i] = "model"
    THEN ChunkModel ELSE model

\* tokenUsage of the streaming branch of the SSE translator: a local value
\* of the call, set from each "data: " line of buf that carries usage.
SSEUsage(buf) ==
    IF \E i \in DOMAIN buf : buf[i].sym = "data" /\ buf[i].p = "usage"
    THEN ChunkUsage ELSE EmptyTokenUsage

\* extractAnthropicSSEFromEventStream: the SSE text of the decodable messages
\* at the head of the buffer, and the bytes that stay buffered (from lastRead).
RECURSIVE extractAnthropicSSEFromEventStream(_)
extractAnthropicSSEFromEventStream(buf) ==
    IF ~DecodeOk(buf) THEN [sse |-> <<>>, rest |-> buf]
    ELSE LET r == extractAnthropicSSEFromEventStream(Drop(buf, FrameLen))
         IN  IF buf[1].p \in BadPayloads THEN r
             ELSE [sse |-> <<EventDataLines(buf[1].p), NL, NL>> \o r.sse,
                   rest |-> r.rest]

\* The terminal sentinel each translator appends at end of stream.
Sentinel(t) == IF t = "AwsOpenAI" THEN <<DataLine("done"), NL>>
               ELSE <<DataLine("done"), NL, NL>>

(***************************************************************************)
(* ResponseBody, streaming branch: newBody and the new buffer.             *)
(***************************************************************************)
AppendSentinel(t, body, endOfStream) ==
    IF endOfStream /\ ~HasSuffix(body, Sentinel(t)) THEN body \o Sentinel(t) ELSE body

StreamNewBody(t, buf, buffered, endOfStream) ==
    CASE t = "AwsOpenAI" -> AppendSentinel(t, buf, endOfStream)
      [] t = "AWSInvokeOpenAI" -> AppendSentinel(t, convertEventStreamToSSE(buf), endOfStream)
      [] OTHER -> extractAnthropicSSEFromEventStream(buffered \o buf).sse

StreamNewBuffer(t, buf, buffered) ==
    IF t = "AWSAnthropic" THEN extractAnthropicSSEFromEventStream(buffered \o buf).rest
    ELSE buffered

\* tokenUsage and responseModel of the call.  The Anthropic translator
\* returns what its stream parser returns: the parser is not part of the
\* model, and its values are left at the zero value and the request model.
StreamTokenUsage(t, buf) ==
    CASE t = "AwsOpenAI" -> SSEUsage(buf)
      [] t = "AWSInvokeOpenAI" -> EventStreamUsage(buf)
      [] OTHER -> EmptyTokenUsage

StreamResponseModel(t) == RequestModel

(***************************************************************************)
(* The streaming exchange.                                                 *)
(***************************************************************************)
StreamInit ==
    /\ tr \in Translators
    /\ pc = "new"
    /\ stream = FALSE
    /\ wire \in SeqsUpTo(PayloadKinds, MaxFrames)
    /\ pending = WireBytes(tr, wire)
    /\ bufferedBody = <<>>
    /\ out = <<>>
    /\ lastBody = <<>>
    /\ calls = 0
    /\ streamingResponseModel = "" /\ respUsage = <<>> /\ respModel = ""
    /\ SchemaIdle /\ ErrIdle /\ UsageIdle /\ TokIdle /\ ReqIdle

\* RequestBody of a streaming request: records the streaming state.
StreamRequestBody ==
    /\ pc = "new"
    /\ pc' = "streaming"
    /\ stream' = TRUE
    /\ UNCHANGED <<tr, wire, pending, bufferedBody, out, lastBody, calls>>
    /\ UNCHANGED <<streamingResponseModel, respUsage, respModel>>
    /\ UNCHANGED <<schemaVars, errVars, usageVars, tokVars, reqVars>>

\* One ResponseBody call: the host hands over the next n upstream bytes;
\* endOfStream is set on the call that hands over the last of them, or on a
\* later call that carries no bytes.
StreamResponseBody ==
    /\ pc = "streaming"
    /\ stream
    /\ calls < MaxCalls
    /\ \E n \in 0..Len(pending), endOfStream \in BOOLEAN :
          /\ endOfStream => n = Len(pending)
          /\ LET buf == Take(pending, n)
                 body == StreamNewBody(tr, buf, bufferedBody, endOfStream)
             IN  /\ lastBody' = body
                 /\ out' = out \o body
                 /\ bufferedBody' = StreamNewBuffer(tr, buf, bufferedBody)
                 /\ pending' = Drop(pending, n)
                 /\ respUsage' = StreamTokenUsage(tr, buf)
                 /\ respModel' = StreamResponseModel(tr)
                 /\ streamingResponseModel' =
                        IF tr = "AWSInvokeOpenAI"
                        THEN EventStreamModel(buf, streamingResponseModel)
                        ELSE streamingResponseModel
                 /\ pc' = IF endOfStream THEN "closed" ELSE "streaming"
    /\ calls' = calls + 1
    /\ UNCHANGED <<tr, stream, wire>>
    /\ UNCHANGED <<schemaVars, errVars, usageVars, tokVars, reqVars>>

StreamNext == StreamRequestBody \/ StreamResponseBody

SpecStream == StreamInit /\ [][StreamNext]_vars

\* Exchanges whose upstream also sends chunks with usage and with a model
\* and, for the EventStream translators, frames that cannot be decoded.
WireKinds(t) == IF t = "AwsOpenAI" THEN ChunkKinds ELSE FrameKinds

ChunkInit ==
    /\ tr \in Translators
    /\ pc = "new"
    /\ stream = FALSE
    /\ wire \in SeqsUpTo(WireKinds(tr), MaxFrames)
    /\ pending = WireBytes(tr, wire)
    /\ bufferedBody = <<>>
    /\ out = <<>>
    /\ lastBody = <<>>
    /\ calls = 0
    /\ streamingResponseModel = "" /\ respUsage = <<>> /\ respModel = ""
    /\ SchemaIdle /\ ErrIdle /\ UsageIdle /\ TokIdle /\ ReqIdle

SpecChunks == ChunkInit /\ [][StreamNext]_vars

(***************************************************************************)
(* JSON values of a schema document.  A Go string holding a reference is   *)
(* kept split at "/" (strings.Split is applied to it wherever it is read). *)
(***************************************************************************)
Str(s) == [t |-> "str", v |-> s]
Path(p) == [t |-> "path", v |-> p]
Bool(b) == [t |-> "bool", v |-> b]
Map(m) == [t |-> "map", v |-> m]
List(l) == [t |-> "list", v |-> l]
Nil == [t |-> "nil", v |-> 0]

IsString(x) == x.t \in {"str", "path"}
\* strings.Split(path, "/")
Components(x) == IF x.t = "path" THEN x.v ELSE <<x.v>>

\* An outcome of a call: e = "ok" and the value returned, or the error.
Ok(v) == [e |-> "ok", v |-> v]
Err(kind) == [e |-> kind, v |-> Nil]
Oks(outcomes) == {o \in outcomes : o.e = "ok"}
Errs(outcomes) == {o \in outcomes : o.e # "ok"}

\* The two sanitizers of the repository: internal/translator (jsonSchema*,
\* projecting for Gemini) and internal/extproc/translator.
Impls == {"gemini", "extproc"}

(***************************************************************************)
(* jsonSchemaRetrieveRef / retrieveRef.  The type assertion                *)
(* val.(map[string]any) panics when the value of a segment is no map.      *)
(***************************************************************************)
\* jsonSchemaDeepCopyAny / deepcopy.Anything: new maps and lists all the way
\* down (a node of the copy has no address in the source document).
RECURSIVE jsonSchemaDeepCopyAny(_)
RECURSIVE DeepCopyList(_)
DeepCopyList(l) ==
    IF l = <<>> THEN <<>> ELSE <<jsonSchemaDeepCopyAny(Head(l))>> \o DeepCopyList(Tail(l))
jsonSchemaDeepCopyAny(value) ==
    CASE value.t = "map" -> Map([k \in DOMAIN value.v |-> jsonSchemaDeepCopyAny(value.v[k])])
      [] value.t = "list" -> List(DeepCopyList(value.v))
      [] OTHER -> value

RECURSIVE RetrieveWalk(_, _)
RetrieveWalk(outv, comps) ==
    IF comps = <<>> THEN Ok(jsonSchemaDeepCopyAny(outv))
    ELSE IF Head(comps) \in DOMAIN outv.v
         THEN LET val == outv.v[Head(comps)]
              IN  IF val.t = "map" THEN RetrieveWalk(val, Tail(comps)) ELSE Err("panic")
         ELSE Err("MissingReference")

jsonSchemaRetrieveRef(path, schema) ==
    LET components == Components(path)
    IN  IF components[1] # "#" THEN Err("NotFragment")
        ELSE RetrieveWalk(schema, Tail(components))

(***************************************************************************)
(* jsonSchemaSkipKeys / inferSkipKeys.  Go visits the keys of a map in an  *)
(* unspecified order: every order is followed, and the result is the set   *)
(* of outcomes [e, keys, processed] some order produces.  processedRefs is *)
(* shared by the whole walk and never shrinks.                             *)
(***************************************************************************)
\* A pointer met again: an error in internal/translator, skipped in extproc.
SkipKeysOnProcessed(im, s) ==
    IF im = "gemini" THEN [e |-> "CircularReference", keys |-> {}, processed |-> {}] ELSE s

RECURSIVE jsonSchemaSkipKeys(_, _, _, _)
RECURSIVE SkipKeysMap(_, _, _, _, _)
RECURSIVE SkipKeysList(_, _, _, _, _)
RECURSIVE SkipKeysKey(_, _, _, _, _)

\* One key k of dict m, from state s.
SkipKeysKey(im, m, k, fullSchema, s) ==
    LET val == m[k]
        failed(kind) == [e |-> kind, keys |-> {}, processed |-> {}]
        join(n) == IF n.e # "ok" THEN n
                   ELSE [e |-> "ok", keys |-> s.keys \cup n.keys, processed |-> n.processed]
    IN  IF s.e # "ok" THEN {s}
        ELSE IF k = "$ref" THEN
            IF ~IsString(val) THEN {failed("RefNotString")}
            ELSE IF val \in s.processed THEN {SkipKeysOnProcessed(im, s)}
            ELSE LET ref == jsonSchemaRetrieveRef(val, fullSchema)
                     top == IF Len(Components(val)) > 1 THEN {Components(val)[2]} ELSE {}
                 IN  IF ref.e # "ok" THEN {failed(ref.e)}
                     ELSE {IF n.e # "ok" THEN n
                           ELSE [e |-> "ok", keys |-> s.keys \cup top \cup n.keys,
                                 processed |-> n.processed] :
                             n \in jsonSchemaSkipKeys(im, ref.v, fullSchema,
                                                      s.processed \cup {val})}
        ELSE IF val.t \in {"map", "list"} THEN
            {join(n) : n \in jsonSchemaSkipKeys(im, val, fullSchema, s.processed)}
        ELSE {s}

SkipKeysMap(im, m, remaining, fullSchema, states) ==
    IF remaining = {} THEN states
    ELSE UNION {SkipKeysMap(im, m, remaining \ {k}, fullSchema,
                            UNION {SkipKeysKey(im, m, k, fullSchema, s) : s \in states}) :
                  k \in remaining}

SkipKeysList(im, l, i, fullSchema, states) ==
    IF i > Len(l) THEN states
    ELSE SkipKeysList(im, l, i + 1, fullSchema,
            UNION {IF s.e # "ok" THEN {s}
                   ELSE {IF n.e # "ok" THEN n
                         ELSE [e |-> "ok", keys |-> s.keys \cup n.keys,
                               processed |-> n.processed] :
                           n \in jsonSchemaSkipKeys(im, l[i], fullSchema, s.processed)} :
                     s \in states})

jsonSchemaSkipKeys(im, obj, fullSchema, processedRefs) ==
    LET start == {[e |-> "ok", keys |-> {}, processed |-> processedRefs]}
    IN  CASE obj.t = "map" -> SkipKeysMap(im, obj.v, DOMAIN obj.v, fullSchema, start)
          [] obj.t = "list" -> SkipKeysList(im, obj.v, 1, fullSchema, start)
          [] OTHER -> start

(***************************************************************************)
(* A loop "for k, v := range dict" that fills an output map and may return *)
(* from inside the loop.  The visit of one key either writes entries       *)
(* (Merge) or returns (Done); the loop is followed in every key order.     *)
(***************************************************************************)
EmptyFcn == [k \in {} |-> Nil]
Merge(m) == [st |-> "merge", e |-> "ok", v |-> Map(m)]
Done(o) == [st |-> "done", e |-> o.e, v |-> o.v]
Running(m) == [st |-> "run", e |-> "ok", v |-> Map(m)]
MergeOrDone(k, outcomes) == {IF o.e = "ok" THEN Merge(k :> o.v) ELSE Done(o) : o \in outcomes}

ApplyEffect(s, f) ==
    IF s.st = "done" THEN s
    ELSE IF f.st = "done" THEN f
    ELSE Running(f.v.v @@ s.v.v)

RECURSIVE RangeLoop(_, _, _)
RangeLoop(eff, remaining, states) ==
    IF remaining = {} THEN states
    ELSE UNION {RangeLoop(eff, remaining \ {k},
                          {ApplyEffect(s, f) : s \in states, f \in eff[k]}) :
                  k \in remaining}

\* The outcomes of the loop: the map built, or what a visit returned.
RangeOutcomes(eff) ==
    {[e |-> s.e, v |-> s.v] : s \in RangeLoop(eff, DOMAIN eff, {Running(EmptyFcn)})}

(***************************************************************************)
(* jsonSchemaDereferenceHelper / dereferenceRefsHelper.  A call that       *)
(* returns without error leaves processedRefs as it found it.              *)
(***************************************************************************)
RECURSIVE jsonSchemaDereferenceHelper(_, _, _, _, _)
RECURSIVE DerefList(_, _, _, _, _)

DerefKey(im, k, val, fullSchema, skipKeys, processedRefs) ==
    IF k \in skipKeys THEN {Merge(k :> val)}
    ELSE IF k = "$ref" THEN
        IF ~IsString(val) THEN {Done(Err("RefNotString"))}
        ELSE IF val \in processedRefs THEN
            IF im = "gemini" THEN {Done(Err("CircularReference"))} ELSE {Merge(EmptyFcn)}
        ELSE LET ref == jsonSchemaRetrieveRef(val, fullSchema)
             IN  IF ref.e # "ok" THEN {Done(ref)}
                 ELSE {Done(o) : o \in jsonSchemaDereferenceHelper(im, ref.v, fullSchema,
                                           skipKeys, processedRefs \cup {val})}
    ELSE IF val.t \in {"map", "list"} THEN
        MergeOrDone(k, jsonSchemaDereferenceHelper(im, val, fullSchema, skipKeys,
                                                   processedRefs))
    ELSE {Merge(k :> val)}

DerefList(im, l, fullSchema, skipKeys, processedRefs) ==
    IF l = <<>> THEN {Ok(List(<<>>))}
    ELSE LET hs == jsonSchemaDereferenceHelper(im, Head(l), fullSchema, skipKeys,
                                               processedRefs)
             ts == DerefList(im, Tail(l), fullSchema, skipKeys, processedRefs)
         IN  Errs(hs) \cup
             {IF t.e = "ok" THEN Ok(List(<<h.v>> \o t.v.v)) ELSE t :
                h \in Oks(hs), t \in IF Oks(hs) = {} THEN {} ELSE ts}

jsonSchemaDereferenceHelper(im, obj, fullSchema, skipKeys, processedRefs) ==
    CASE obj.t = "map" ->
           RangeOutcomes([k \in DOMAIN obj.v |->
               DerefKey(im, k, obj.v[k], fullSchema, skipKeys, processedRefs)])
      [] obj.t = "list" -> DerefList(im, obj.v, fullSchema, skipKeys, processedRefs)
      [] OTHER -> {Ok(obj)}

\* jsonSchemaDereference / dereferenceRefs
jsonSchemaDereference(im, schemaObj) ==
    UNION {IF s.e # "ok" THEN {Err(s.e)}
           ELSE jsonSchemaDereferenceHelper(im, schemaObj, schemaObj, s.keys, {}) :
             s \in jsonSchemaSkipKeys(im, schemaObj, schemaObj, {})}

(***************************************************************************)
(* jsonSchemaToGapic / formatJSONSchemaToGapic: the dialect projection.    *)
(***************************************************************************)
\* allowedSchemaFieldsSet of jsonSchemaToGemini and of the extproc package.
allowedSchemaFieldsSet(im) ==
    IF im = "gemini"
    THEN {"anyOf", "default", "description", "enum", "example", "format", "items",
          "maxItems", "maxLength", "maxProperties", "maximum", "minItems", "minLength",
          "minProperties", "minimum", "nullable", "pattern", "properties",
          "propertyOrdering", "required", "title", "type"}
    ELSE {"title", "description", "example", "default", "enum", "items", "properties",
          "required", "type", "nullable", "allOf", "anyOf", "not"}

\* fmt.Sprintf("%v", x): a string is rendered as itself.
Sprintf(x) == IF IsString(x) THEN x ELSE Str("%v")

\* What internal/translator rejects with an error, extproc silently ignores.
WrongShape(im) == IF im = "gemini" THEN {Done(Err("InvalidSchema"))} ELSE {Merge(EmptyFcn)}

Nullable == "nullable" :> Bool(TRUE)

RECURSIVE jsonSchemaToGapic(_, _)
RECURSIVE GapicProperties(_, _, _)
RECURSIVE GapicAnyOf(_, _)

\* The maps the loop over properties can build when no entry fails.
GapicProperties(im, props, keys) ==
    IF keys = {} THEN {EmptyFcn}
    ELSE LET k == CHOOSE x \in keys : TRUE
         IN  {(k :> o.v) @@ r : o \in Oks(jsonSchemaToGapic(im, props[k])),
                                r \in GapicProperties(im, props, keys \ {k})}

\* A loop over the anyOf list that keeps the branches of type "null".
GapicAnyOfKeepingNull(im, l) ==
    IF l = <<>> THEN {[e |-> "ok", l |-> <<>>, n |-> FALSE]}
    ELSE LET el == Head(l)
             rest == GapicAnyOf(im, Tail(l))
             failed(kind) == [e |-> kind, l |-> <<>>, n |-> FALSE]
             null == el.t = "map" /\ "type" \in DOMAIN el.v /\ el.v["type"] = Str("null")
         IN  IF el.t # "map" THEN
                 IF im = "gemini" THEN {failed("InvalidSchema")} ELSE rest
             ELSE LET hs == jsonSchemaToGapic(im, el)
                  IN  {failed(h.e) : h \in Errs(hs)} \cup
                      {IF r.e = "ok" THEN [r EXCEPT !.l = <<h.v>> \o r.l, !.n = null \/ r.n]
                       ELSE r :
                         h \in Oks(hs), r \in IF Oks(hs) = {} THEN {} ELSE rest}

\* The loop over the anyOf list: [e, l (the projected branches), n (nullable)].
GapicAnyOf(im, l) ==
    IF l = <<>> THEN {[e |-> "ok", l |-> <<>>, n |-> FALSE]}
    ELSE LET el == Head(l)
             rest == GapicAnyOf(im, Tail(l))
             failed(kind) == [e |-> kind, l |-> <<>>, n |-> FALSE]
         IN  IF el.t # "map" THEN
                 IF im = "gemini" THEN {failed("InvalidSchema")} ELSE rest
             ELSE IF "type" \in DOMAIN el.v /\ el.v["type"] = Str("null") THEN
                 {IF r.e = "ok" THEN [r EXCEPT !.n = TRUE] ELSE r : r \in rest}
             ELSE LET hs == jsonSchemaToGapic(im, el)
                  IN  {failed(h.e) : h \in Errs(hs)} \cup
                      {IF r.e = "ok" THEN [r EXCEPT !.l = <<h.v>> \o r.l] ELSE r :
                         h \in Oks(hs), r \in IF Oks(hs) = {} THEN {} ELSE rest}

\* A projection that takes any "type" list holding "null" and another type.
GapicTypeOfAnyLength(im, value) ==
    IF value.t = "list" THEN
        LET typeList == value.v
            others == {i \in 1..Len(typeList) : typeList[i] # Str("null")}
        IN  IF others # {} /\ others # 1..Len(typeList)
            THEN {Merge(("type" :> Sprintf(typeList[CHOOSE i \in others : TRUE])) @@ Nullable)}
            ELSE {Done(Err("InvalidSchema"))}
    ELSE {Merge("type" :> Sprintf(value))}

GapicType(im, value) ==
    IF value.t = "list" THEN
        IF Len(value.v) # 2 THEN {Done(Err("InvalidSchema"))}
        ELSE LET typeList == value.v
                 hasNull == \E i \in 1..2 : typeList[i] = Str("null")
                 nonNullType == IF typeList[2] # Str("null") THEN typeList[2]
                                ELSE IF typeList[1] # Str("null") THEN typeList[1]
                                ELSE Nil
             IN  IF hasNull /\ nonNullType # Nil THEN
                     IF nonNullType.t = "map"
                     THEN {IF o.e = "ok" THEN Merge(Nullable @@ o.v.v) ELSE Done(o) :
                             o \in jsonSchemaToGapic(im, nonNullType)}
                     ELSE {Merge(("type" :> Sprintf(nonNullType)) @@ Nullable)}
                 ELSE {Done(Err("InvalidSchema"))}
    ELSE IF im = "gemini" THEN
        IF IsString(value) THEN {Merge("type" :> value)} ELSE {Done(Err("InvalidSchema"))}
    ELSE {Merge("type" :> Sprintf(value))}

GapicAllOf(im, value) ==
    IF value.t # "list" THEN WrongShape(im)
    ELSE IF Len(value.v) > 1 THEN {Done(Err("InvalidSchema"))}
    ELSE IF Len(value.v) = 0 THEN {Done(Err("panic"))}
    ELSE IF value.v[1].t # "map" THEN WrongShape(im)
    ELSE {Done(o) : o \in jsonSchemaToGapic(im, value.v[1])}

GapicKey(im, key, value) ==
    CASE key = "$defs" -> {Merge(EmptyFcn)}
      [] key = "items" ->
           IF value.t = "map" THEN MergeOrDone("items", jsonSchemaToGapic(im, value))
           ELSE WrongShape(im)
      [] key = "properties" ->
           IF value.t = "map"
           THEN LET keys == {k \in DOMAIN value.v : value.v[k].t = "map"}
                IN  {Done(o) : o \in UNION {Errs(jsonSchemaToGapic(im, value.v[k])) :
                                              k \in keys}} \cup
                    {Merge("properties" :> Map(m)) : m \in GapicProperties(im, value.v, keys)}
           ELSE WrongShape(im)
      [] key = "type" -> GapicType(im, value)
      [] key = "allOf" -> GapicAllOf(im, value)
      [] key = "anyOf" ->
           IF value.t = "list"
           THEN {IF r.e # "ok" THEN Done(Err(r.e))
                 ELSE Merge(("anyOf" :> List(r.l)) @@ (IF r.n THEN Nullable ELSE EmptyFcn)) :
                   r \in GapicAnyOf(im, value.v)}
           ELSE WrongShape(im)
      [] OTHER ->
           IF key \in allowedSchemaFieldsSet(im) THEN {Merge(key :> value)}
           ELSE {Merge(EmptyFcn)}

jsonSchemaToGapic(im, schema) ==
    RangeOutcomes([key \in DOMAIN schema.v |-> GapicKey(im, key, schema.v[key])])

\* jsonSchemaToGemini / sanitizeJSONSchema: dereference, then project.
sanitizeJSONSchema(im, schema) ==
    UNION {IF d.e # "ok" THEN {d}
           ELSE IF d.v.t # "map" THEN {Err("NotAMap")}
           ELSE jsonSchemaToGapic(im, d.v) :
             d \in jsonSchemaDereference(im, schema)}

(***************************************************************************)
(* The schema documents handed to the sanitizers: a root object with two   *)
(* properties, two definitions under "$defs" and one further root key.     *)
(***************************************************************************)
Ref(name) == Path(<<"#", "$defs", name>>)
RefTo(name) == Map("$ref" :> Ref(name))
StringSchema == Map("type" :> Str("string"))
\* {"type": ["null", "string"], "additionalProperties": false}
OptionalString ==
    Map(("type" :> List(<<Str("null"), Str("string")>>)) @@
        ("additionalProperties" :> Bool(FALSE)))
\* {"type": "object", "properties": {"child": {"$ref": "#/$defs/A"}}}
TreeNode ==
    Map(("type" :> Str("object")) @@ ("properties" :> Map("child" :> RefTo("A"))))

PropertySchemas ==
    {StringSchema, OptionalString, RefTo("A"), RefTo("B"), RefTo("C"),
     Map("$ref" :> Path(<<"#", "$defs", "A", "type">>))}
DefinitionsA == {StringSchema, RefTo("B"), TreeNode, Str("not-a-map")}
DefinitionsB == {StringSchema, RefTo("A")}
RootExtras ==
    {EmptyFcn,
     "$ref" :> Ref("A"),
     "default" :> Map("$defs" :> Map("A" :> RefTo("A"))),
     "not" :> Map(("$defs" :> Map("A" :> StringSchema)) @@ ("minProperties" :> Str("1")))}

Document(p, q, a, b, extra) ==
    Map(("properties" :> Map(("p" :> p) @@ ("q" :> q))) @@
        ("$defs" :> Map(("A" :> a) @@ ("B" :> b))) @@ extra)

SchemaDocs ==
    {Document(p, q, a, b, x)    : p \in PropertySchemas, q \in {StringSchema, RefTo("A")},
                                a \in DefinitionsA, b \in DefinitionsB, x \in RootExtras}

SchemaInit ==
    /\ tr = "-"
    /\ pc = "new"
    /\ impl \in Impls
    /\ schemaDoc \in SchemaDocs
    /\ sanitized = <<>>
    /\ again = <<>>
    /\ StreamIdle /\ ErrIdle /\ UsageIdle /\ TokIdle /\ ReqIdle

\* One call of jsonSchemaToGemini / sanitizeJSONSchema on the document.
Sanitize ==
    /\ pc = "new"
    /\ sanitized' \in sanitizeJSONSchema(impl, schemaDoc)
    /\ pc' = "returned"
    /\ UNCHANGED <<tr, impl, schemaDoc, again>>
    /\ UNCHANGED <<streamVars, errVars, usageVars, tokVars, reqVars>>

\* The tree returned is handed to the sanitizer once more.
SanitizeAgain ==
    /\ pc = "returned"
    /\ sanitized.e = "ok"
    /\ again' \in sanitizeJSONSchema(impl, sanitized.v)
    /\ pc' = "again"
    /\ UNCHANGED <<tr, impl, schemaDoc, sanitized>>
    /\ UNCHANGED <<streamVars, errVars, usageVars, tokVars, reqVars>>

SchemaNext == Sanitize \/ SanitizeAgain

SpecSchema == SchemaInit /\ [][SchemaNext]_vars

(***************************************************************************)
(* Schemas without references, for the dialect projection: nodes with a    *)
(* "type", and nodes built from them with "allOf", "anyOf", "properties"   *)
(* and "items", two levels deep.                                           *)
(***************************************************************************)
\* Entries of a "type" list.
MaxTypeList == 3
\* Entries of an "allOf" or "anyOf" list.
MaxBranches == 3

TypeNames == {"string", "number", "null"}
TypeLists == SeqsUpTo({Str(n) : n \in TypeNames}, MaxTypeList)
NullSchema == Map("type" :> Str("null"))
Siblings ==
    {EmptyFcn,
     ("description" :> Str("a field")) @@ ("additionalProperties" :> Bool(FALSE))}
TypeNodes ==
    {Map(("type" :> List(tl)) @@ x) : tl \in TypeLists, x \in Siblings} \cup
    {StringSchema, NullSchema, Map("type" :> Bool(TRUE))}

\* The nodes built from the nodes of B by one keyword.
Composites(B, n) ==
    {Map("allOf" :> List(l)) : l \in SeqsUpTo(B, n)} \cup
    {Map("anyOf" :> List(l)) : l \in SeqsUpTo(B \cup {Bool(TRUE)}, n)} \cup
    {Map("properties" :> Map("a" :> x)) : x \in B \cup {Bool(TRUE)}} \cup
    {Map("items" :> x) : x \in B \cup {Bool(TRUE)}} \cup
    {Map(("type" :> List(<<x, Str("null")>>)) @@ ("description" :> Str("a field"))) : x \in B}

Level0 ==
    {StringSchema, NullSchema, Map("type" :> List(<<Str("string"), Str("null")>>)),
     Map("type" :> List(<<Str("string"), Str("number")>>))}
Level1 == Level0 \cup Composites(Level0, MaxBranches)
Level2 == Composites(Level1, 1)
ProjectionDocs ==
    TypeNodes \cup Level1 \cup Level2 \cup
    {Map(("title" :> Str("T")) @@ ("additionalProperties" :> Bool(FALSE)) @@ d.v) :
        d \in Composites(Level0, MaxBranches)}

ProjectInit ==
    /\ tr = "-"
    /\ pc = "new"
    /\ impl \in Impls
    /\ schemaDoc \in ProjectionDocs
    /\ sanitized = <<>>
    /\ again = <<>>
    /\ StreamIdle /\ ErrIdle /\ UsageIdle /\ TokIdle /\ ReqIdle

SpecProject == ProjectInit /\ [][SchemaNext]_vars

(***************************************************************************)
(* The same document sanitized twice.  Its nodes have one of "allOf",      *)
(* "anyOf" and "type" next to one sibling key; a node is the root, a       *)
(* property or the items of the root.                                      *)
(***************************************************************************)
Keywords ==
    {"allOf" :> List(<<StringSchema>>),
     "allOf" :> List(<<StringSchema, NullSchema>>),
     "anyOf" :> List(<<StringSchema, NullSchema>>),
     "anyOf" :> List(<<StringSchema>>),
     "type" :> List(<<Str("string"), Str("null")>>),
     "type" :> List(<<Str("string"), Str("number")>>),
     "type" :> Str("string")}
SiblingKeys ==
    {EmptyFcn,
     "nullable" :> Bool(FALSE),
     "nullable" :> Bool(TRUE),
     "type" :> Str("object"),
     "type" :> List(<<Str("string"), Str("number"), Str("null")>>),
     "description" :> Str("a field")}
KeywordNodes == {Map(kw @@ sibling) : kw \in Keywords, sibling \in SiblingKeys}
TwiceDocs ==
    KeywordNodes \cup
    {Map("properties" :> Map("a" :> n)) : n \in KeywordNodes} \cup
    {Map(("type" :> Str("array")) @@ ("items" :> n)) : n \in KeywordNodes}

TwiceInit ==
    /\ tr = "-"
    /\ pc = "new"
    /\ impl \in Impls
    /\ schemaDoc \in TwiceDocs
    /\ sanitized = <<>>
    /\ again = <<>>
    /\ StreamIdle /\ ErrIdle /\ UsageIdle /\ TokIdle /\ ReqIdle

\* A second call of the sanitizer on the document of the first.
SanitizeSameDocument ==
    /\ pc = "returned"
    /\ again' \in sanitizeJSONSchema(impl, schemaDoc)
    /\ pc' = "twice"
    /\ UNCHANGED <<tr, impl, schemaDoc, sanitized>>
    /\ UNCHANGED <<streamVars, errVars, usageVars, tokVars, reqVars>>

TwiceNext == Sanitize \/ SanitizeSameDocument

SpecTwice == TwiceInit /\ [][TwiceNext]_vars

(***************************************************************************)
(* Dereferencing a document that lives in memory.  Every map and list of   *)
(* the caller's document carries its address (its path in the document);   *)
(* a map or list made by the code carries none.  After the call the caller *)
(* writes into one map or list of the tree returned: a node that is a node *)
(* of the document is written in the document too.                         *)
(***************************************************************************)
RECURSIVE Place(_, _)
RECURSIVE PlaceList(_, _, _)
PlaceList(l, path, i) ==
    IF i > Len(l) THEN <<>>
    ELSE <<Place(l[i], Append(path, "[]"))>> \o PlaceList(l, path, i + 1)
Place(x, path) ==
    CASE x.t = "map" ->
           [t |-> "map", v |-> [k \in DOMAIN x.v |-> Place(x.v[k], Append(path, k))],
            addr |-> path]
      [] x.t = "list" -> [t |-> "list", v |-> PlaceList(x.v, path, 1), addr |-> path]
      [] OTHER -> x

IsNode(x) == x.t \in {"map", "list"}
InDocument(x) == "addr" \in DOMAIN x

\* The paths, through maps, to the maps and lists of a tree.
RECURSIVE NodePaths(_)
NodePaths(x) ==
    IF x.t = "map"
    THEN {<<>>} \cup UNION {{<<k>> \o p : p \in NodePaths(x.v[k])} : k \in DOMAIN x.v}
    ELSE IF x.t = "list" THEN {<<>>} ELSE {}

RECURSIVE NodeAt(_, _)
NodeAt(x, path) == IF path = <<>> THEN x ELSE NodeAt(x.v[Head(path)], Tail(path))

\* out[key] = value on a map, out[0] = value (or append) on a list
WriteNode(x) ==
    IF x.t = "map" THEN [x EXCEPT !.v = ("x-written" :> Bool(TRUE)) @@ @]
    ELSE [x EXCEPT !.v = <<Str("x-written")>> \o (IF @ = <<>> THEN <<>> ELSE Tail(@))]

RECURSIVE WriteAt(_, _)
WriteAt(x, path) ==
    IF path = <<>> THEN WriteNode(x)
    ELSE [x EXCEPT !.v[Head(path)] = WriteAt(@, Tail(path))]

\* Has a write reached the tree?
RECURSIVE Written(_)
Written(x) ==
    CASE x.t = "map" -> "x-written" \in DOMAIN x.v \/ \E k \in DOMAIN x.v : Written(x.v[k])
      [] x.t = "list" -> \E i \in 1..Len(x.v) : x.v[i] = Str("x-written") \/ Written(x.v[i])
      [] OTHER -> FALSE

DerefInit ==
    /\ tr = "-"
    /\ pc = "new"
    /\ impl \in Impls
    /\ schemaDoc \in {Place(d, <<>>) : d \in SchemaDocs}
    /\ sanitized = <<>>
    /\ again = <<>>
    /\ StreamIdle /\ ErrIdle /\ UsageIdle /\ TokIdle /\ ReqIdle

\* One call of jsonSchemaDereference / dereferenceRefs on the document; the
\* code reads the document and writes only maps and lists it made.
Dereference ==
    /\ pc = "new"
    /\ sanitized' \in jsonSchemaDereference(impl, schemaDoc)
    /\ pc' = "returned"
    /\ UNCHANGED <<tr, impl, schemaDoc, again>>
    /\ UNCHANGED <<streamVars, errVars, usageVars, tokVars, reqVars>>

\* The caller writes into one map or list of the tree returned.
WriteOutput ==
    /\ pc = "returned"
    /\ sanitized.e = "ok"
    /\ \E path \in NodePaths(sanitized.v) :
          LET node == NodeAt(sanitized.v, path)
          IN  /\ sanitized' = Ok(WriteAt(sanitized.v, path))
              /\ schemaDoc' = IF InDocument(node) THEN WriteAt(schemaDoc, node.addr)
                              ELSE schemaDoc
    /\ pc' = "written"
    /\ UNCHANGED <<tr, impl, again, streamVars, errVars, usageVars, tokVars, reqVars>>

DerefNext == Dereference \/ WriteOutput

SpecDeref == DerefInit /\ [][DerefNext]_vars

(***************************************************************************)
(* ResponseError.  An upstream error body is its bytes: valid JSON text    *)
(* (the document and its layout, as sent or as json.Marshal writes it) or  *)
(* text that is no JSON.                                                   *)
(***************************************************************************)
JSONBody(ws, doc) == [k |-> "json", ws |-> ws, doc |-> doc]
TextBody(text) == [k |-> "text", ws |-> "-", doc |-> Str(text)]
\* json.Marshal: no insignificant white space.
Marshal(doc) == JSONBody("compact", doc)
\* string(buf), the whole body as one string value
StringOf(body) == [t |-> "raw", v |-> body]

statusHeaderName == ":status"
contentTypeHeaderName == "content-type"
awsErrorTypeHeaderName == "x-amzn-errortype"
jsonContentType == "application/json"
\* strings.Contains(v, jsonContentType) over the content types of the model
ContainsJSON(v) == v \in {"application/json", "application/json; charset=utf-8"}
\* respHeaders[name]: the zero value "" for a header that is absent
HeaderValue(headers, name) == IF name \in DOMAIN headers THEN headers[name] ELSE ""
IsJSONResponse(headers) ==
    contentTypeHeaderName \in DOMAIN headers /\ ContainsJSON(headers[contentTypeHeaderName])

\* openai.Error{Type: "error", Error: openai.ErrorType{Type, Message, Code}}
OpenAIError(type, message, code) ==
    Map(("type" :> Str("error")) @@
        ("error" :> Map(("type" :> type) @@ ("message" :> message) @@ ("code" :> Str(code)))))

\* encoding/json into a struct: the text is JSON, the value an object, and
\* the fields present have the kind of the struct's fields.
FieldIs(m, k, kind) == k \notin DOMAIN m.v \/ m.v[k].t = kind
StringField(m, k) == IF k \in DOMAIN m.v THEN m.v[k] ELSE Str("")
ObjectField(m, k) == IF k \in DOMAIN m.v THEN m.v[k] ELSE Map(EmptyFcn)

\* json.Unmarshal(buf, &openai.Error{}) == nil; also anthropic.ErrorResponse,
\* which has the same fields {type, error: {type, message}}.
UnmarshalsAsError(body) ==
    /\ body.k = "json" /\ body.doc.t = "map"
    /\ FieldIs(body.doc, "type", "str") /\ FieldIs(body.doc, "error", "map")
    /\ FieldIs(ObjectField(body.doc, "error"), "type", "str")
    /\ FieldIs(ObjectField(body.doc, "error"), "message", "str")
ErrorMessage(body) == StringField(ObjectField(body.doc, "error"), "message")
ErrorType(body) == StringField(ObjectField(body.doc, "error"), "type")

\* the AWS error struct {__type, message, code}; awsbedrock.BedrockException
UnmarshalsAsAWSError(body) ==
    /\ body.k = "json" /\ body.doc.t = "map"
    /\ FieldIs(body.doc, "__type", "str") /\ FieldIs(body.doc, "message", "str")
    /\ FieldIs(body.doc, "code", "str")
AWSMessage(body) == StringField(body.doc, "message")

\* The translators with a ResponseError in the repository, and the generic
\* error type each wraps an opaque body under.
ErrTranslators ==
    {"AwsOpenAI", "AWSInvokeOpenAI", "AWSAnthropic", "GCPAnthropic",
     "OpenAITokenize", "AWSBedrockTokenize"}
BackendError(t) ==
    CASE t \in {"AwsOpenAI", "AWSAnthropic"} -> "awsInvokeModelBackendError"
      [] t \in {"AWSInvokeOpenAI", "AWSBedrockTokenize"} -> "awsBedrockBackendError"
      [] t = "GCPAnthropic" -> "GCPAnthropicBackendError"
      [] OTHER -> "openAIBackendError"

pathHeaderName == ":path"
contentLengthHeaderName == "content-length"
\* strconv.Itoa(len(newBody)): the decimal text of the length of the bytes,
\* kept as the bytes it measures
Itoa(bytes) == [lenOf |-> bytes]

\* What a ResponseError returns: (newHeaders, newBody, err).
Mutated(body) ==
    [err |-> "nil",
     newHeaders |-> <<<<contentTypeHeaderName, [text |-> jsonContentType]>>,
                      <<contentLengthHeaderName, Itoa(body)>>>>,
     newBody |-> body]
\* a nil newBody
NoBody == [k |-> "nil", ws |-> "-", doc |-> Nil]
Unmutated == [err |-> "nil", newHeaders |-> <<>>, newBody |-> NoBody]
Failed(msg) == [err |-> msg, newHeaders |-> <<>>, newBody |-> NoBody]

\* A body reader that hands over some bytes and then fails with a transport
\* error instead of io.EOF (the io.Pipe closed with an error of the tests).
ReadErrorAfter(body) == [body EXCEPT !.k = body.k \o ", then a read error"]
ReadFails(body) == body.k \in {"json, then a read error", "text, then a read error"}
\* the bytes the reader handed over before it failed
Delivered(body) ==
    IF body.k = "json, then a read error" THEN [body EXCEPT !.k = "json"]
    ELSE IF body.k = "text, then a read error" THEN [body EXCEPT !.k = "text"]
    ELSE body
\* json.NewDecoder(body).Decode: the decoder stops reading at the closing
\* brace or bracket of the first value, so an error of the reader behind a
\* complete object or array is never seen; behind anything else the decoder
\* reads on and returns the reader's error.
DecoderFails(body) == ReadFails(body) /\ Delivered(body).doc.t \notin {"map", "list"}
ReadErrorMessage(t) ==
    IF t \in {"AWSAnthropic", "GCPAnthropic"} THEN "failed to read raw error body"
    ELSE "failed to read error body"

\* io.ReadAll(body), and the whole body wrapped under the generic error type
Wrapped(t, headers, body) ==
    IF ReadFails(body) THEN Failed(ReadErrorMessage(t))
    ELSE Mutated(Marshal(OpenAIError(Str(BackendError(t)), StringOf(body),
                                     HeaderValue(headers, statusHeaderName))))

\* openAIToAwsOpenAITranslatorV1ChatCompletion.ResponseError and
\* openAIToAWSInvokeOpenAITranslatorV1ChatCompletion.ResponseError
AwsOpenAIResponseError(t, headers, body) ==
    LET statusCode == HeaderValue(headers, statusHeaderName)
    IN  IF IsJSONResponse(headers) THEN
            IF UnmarshalsAsError(body) /\ ErrorMessage(body) # Str("") THEN Mutated(body)
            ELSE IF UnmarshalsAsAWSError(body) /\ AWSMessage(body) # Str("") THEN
                Mutated(Marshal(OpenAIError(Str(HeaderValue(headers, awsErrorTypeHeaderName)),
                                            AWSMessage(body), statusCode)))
            ELSE Wrapped(t, headers, body)
        ELSE Wrapped(t, headers, body)

\* openAIToAWSAnthropicTranslatorV1ChatCompletion.ResponseError and
\* translateGCPAnthropicErrorToOpenAI
AnthropicResponseError(t, headers, body) ==
    LET statusCode == HeaderValue(headers, statusHeaderName)
    IN  IF IsJSONResponse(headers) THEN
            IF DecoderFails(body) \/ ~UnmarshalsAsError(Delivered(body))
            THEN Failed("failed to unmarshal JSON error body")
            ELSE Mutated(Marshal(OpenAIError(ErrorType(Delivered(body)),
                                             ErrorMessage(Delivered(body)), statusCode)))
        ELSE Wrapped(t, headers, body)

\* ToAWSBedrockTranslatorV1Tokenize.ResponseError
BedrockTokenizeResponseError(t, headers, body) ==
    LET statusCode == HeaderValue(headers, statusHeaderName)
    IN  IF IsJSONResponse(headers) THEN
            IF DecoderFails(body) \/ ~UnmarshalsAsAWSError(Delivered(body))
            THEN Failed("failed to unmarshal error body")
            ELSE Mutated(Marshal(OpenAIError(Str(HeaderValue(headers, awsErrorTypeHeaderName)),
                                             AWSMessage(Delivered(body)), statusCode)))
        ELSE Wrapped(t, headers, body)

\* TranslatorV1Tokenize.ResponseError
OpenAITokenizeResponseError(t, headers, body) ==
    IF contentTypeHeaderName \in DOMAIN headers /\ ~ContainsJSON(headers[contentTypeHeaderName])
    THEN Wrapped(t, headers, body)
    ELSE Unmutated

ResponseError(t, headers, body) ==
    CASE t \in {"AwsOpenAI", "AWSInvokeOpenAI"} -> AwsOpenAIResponseError(t, headers, body)
      [] t \in {"AWSAnthropic", "GCPAnthropic"} -> AnthropicResponseError(t, headers, body)
      [] t = "AWSBedrockTokenize" -> BedrockTokenizeResponseError(t, headers, body)
      [] OTHER -> OpenAITokenizeResponseError(t, headers, body)

(***************************************************************************)
(* The upstream error responses handed to ResponseError.                   *)
(***************************************************************************)
\* {"type":"error","error":{"type":..,"message":..,"code":..}}
EnvelopeDoc == OpenAIError(Str("rate_limit_exceeded"), Str("Rate limit exceeded"),
                           "rate_limit_exceeded")
\* {"error":{"message":..,"type":..,"code":..}}, as the OpenAI API sends it
OpenAIDoc == Map("error" :> EnvelopeDoc.v["error"])
\* {"type":"error","error":{"type":"overloaded_error","message":"Overloaded"}}
AnthropicDoc ==
    Map(("type" :> Str("error")) @@
        ("error" :> Map(("type" :> Str("overloaded_error")) @@ ("message" :> Str("Overloaded")))))
\* {"__type":"ValidationException","message":"Invalid model specified"}
AWSDoc == Map(("__type" :> Str("ValidationException")) @@
              ("message" :> Str("Invalid model specified")))
ErrorDocs ==
    {EnvelopeDoc, OpenAIDoc, AnthropicDoc, AWSDoc,
     Map("detail" :> Str("quota")),      \* JSON of no known error shape
     Map("error" :> Str("boom")),        \* "error" is no object
     List(<<>>)}                         \* JSON, but no object
ErrorBodies ==
    {JSONBody(ws, doc) : ws \in {"compact", "pretty"}, doc \in ErrorDocs} \cup
    {TextBody("Service Unavailable"), TextBody("{\"message\": "), TextBody("")}

StatusCodes == {"400", "429", "503"}
ContentTypes == {"application/json", "application/json; charset=utf-8", "text/plain"}
ErrorHeaders ==
    {(statusHeaderName :> st) @@ ct @@ et :
        st \in StatusCodes,
        ct \in {EmptyFcn} \cup {contentTypeHeaderName :> c : c \in ContentTypes},
        et \in {EmptyFcn, awsErrorTypeHeaderName :> "ValidationException"}}

ErrInit ==
    /\ tr \in ErrTranslators
    /\ pc = "new"
    /\ respHeaders \in ErrorHeaders
    /\ errBody \in ErrorBodies
    /\ errResult = <<>>
    /\ StreamIdle /\ SchemaIdle /\ UsageIdle /\ TokIdle /\ ReqIdle

\* The one ResponseError call of an exchange that ended in an upstream error.
ErrResponseError ==
    /\ pc = "new"
    /\ errResult' = ResponseError(tr, respHeaders, errBody)
    /\ pc' = "returned"
    /\ UNCHANGED <<tr, respHeaders, errBody, streamVars, schemaVars, usageVars, tokVars, reqVars>>

ErrNext == ErrResponseError

SpecErr == ErrInit /\ [][ErrNext]_vars

\* The same call over a body whose reader may fail part way.
BrokenBodies ==
    {ReadErrorAfter(b) :
        b \in {JSONBody("compact", AWSDoc), JSONBody("pretty", AnthropicDoc),
               JSONBody("compact", EnvelopeDoc), JSONBody("compact", List(<<>>)),
               JSONBody("compact", Str("boom")),
               TextBody("Service Unavailable"), TextBody("{\"message\": "), TextBody("")}}
ReadInit ==
    /\ tr \in ErrTranslators
    /\ pc = "new"
    /\ respHeaders \in ErrorHeaders
    /\ errBody \in BrokenBodies \cup
                   {JSONBody("compact", AWSDoc), JSONBody("compact", AnthropicDoc),
                    TextBody("Service Unavailable")}
    /\ errResult = <<>>
    /\ StreamIdle /\ SchemaIdle /\ UsageIdle /\ TokIdle /\ ReqIdle

SpecRead == ReadInit /\ [][ErrNext]_vars

(***************************************************************************)
(* Token usage.  A counter of metrics.TokenUsage is unset or holds a       *)
(* uint32.                                                                 *)
(***************************************************************************)
\* The cast uint32(x) of a count: exact, the counts of the model being in
\* 0..MaxTokens (the model checker's integers end below 2^32).
uint32(x) == x

\* openAIToAWSInvokeOpenAITranslatorV1ChatCompletion.ResponseBody, the
\* non-streaming branch: the counts of openAIResp.Usage are copied.
InvokeOpenAIUsage(u) ==
    [input |-> Set(uint32(u.PromptTokens)),
     output |-> Set(uint32(u.CompletionTokens)),
     total |-> Set(uint32(u.TotalTokens)),
     cached |-> IF u.PromptTokensDetails.set
                THEN Set(uint32(u.PromptTokensDetails.n)) ELSE Unset]

\* openAIToAwsOpenAITranslatorV1ChatCompletion.ResponseBody, the
\* non-streaming branch: copied when a total is reported.
AwsOpenAIUsage(u) ==
    IF u.TotalTokens > 0
    THEN [input |-> Set(uint32(u.PromptTokens)),
          output |-> Set(uint32(u.CompletionTokens)),
          total |-> Set(uint32(u.TotalTokens)),
          cached |-> Unset]
    ELSE EmptyTokenUsage

\* ExtractTokenUsageFromAnthropic(inputTokens, outputTokens, cacheReadTokens,
\* cacheCreationTokens), as TestExtractLLMTokenUsage expects it.
ExtractTokenUsageFromAnthropic(inputTokens, outputTokens, cacheReadTokens, cacheCreationTokens) ==
    LET totalInput == inputTokens + cacheCreationTokens + cacheReadTokens
    IN  [input |-> Set(uint32(totalInput)),
         output |-> Set(uint32(outputTokens)),
         total |-> Set(uint32(totalInput + outputTokens)),
         cached |-> Set(uint32(cacheReadTokens + cacheCreationTokens))]

TokenCounts == 0..MaxTokens
\* usage objects of an OpenAI-format response (PromptTokensDetails: nil, or
\* its CachedTokens)
OpenAIUsages ==
    [shape : {"openai"}, PromptTokens : TokenCounts, CompletionTokens : TokenCounts,
     TotalTokens : TokenCounts,
     PromptTokensDetails : {Unset} \cup {Set(c) : c \in TokenCounts}]
\* usage objects of an Anthropic response
AnthropicUsages ==
    [shape : {"anthropic"}, InputTokens : TokenCounts, OutputTokens : TokenCounts,
     CacheReadInputTokens : TokenCounts, CacheCreationInputTokens : TokenCounts]

UsageInit ==
    /\ \/ tr \in {"AwsOpenAI", "AWSInvokeOpenAI"} /\ usage \in OpenAIUsages
       \/ tr = "AWSAnthropic" /\ usage \in AnthropicUsages
    /\ pc = "new"
    /\ tokenUsage = EmptyTokenUsage
    /\ StreamIdle /\ SchemaIdle /\ ErrIdle /\ TokIdle /\ ReqIdle

\* ResponseBody of a non-streaming OpenAI-format response: the usage part.
UsageResponseBody ==
    /\ pc = "new"
    /\ usage.shape = "openai"
    /\ tokenUsage' = IF tr = "AWSInvokeOpenAI" THEN InvokeOpenAIUsage(usage)
                     ELSE AwsOpenAIUsage(usage)
    /\ pc' = "returned"
    /\ UNCHANGED <<tr, usage, streamVars, schemaVars, errVars, tokVars, reqVars>>

\* The usage of an Anthropic response handed to the accountant.
UsageExtractAnthropic ==
    /\ pc = "new"
    /\ usage.shape = "anthropic"
    /\ tokenUsage' = ExtractTokenUsageFromAnthropic(usage.InputTokens, usage.OutputTokens,
                         usage.CacheReadInputTokens, usage.CacheCreationInputTokens)
    /\ pc' = "returned"
    /\ UNCHANGED <<tr, usage, streamVars, schemaVars, errVars, tokVars, reqVars>>

UsageNext == UsageResponseBody \/ UsageExtractAnthropic

SpecUsage == UsageInit /\ [][UsageNext]_vars

(***************************************************************************)
(* RequestBody of the tokenize translators.  A member of the request union *)
(* is a pointer: nil, or a request with its model.  A body is told by its  *)
(* format and the model it names.                                          *)
(***************************************************************************)
NilRequest == [nil |-> TRUE, Model |-> ""]
Request(model) == [nil |-> FALSE, Model |-> model]
RequestUnion(completion, chat) ==
    [TokenizeCompletionRequest |-> completion, TokenizeChatRequest |-> chat]

\* A validation that only asks for some member of the union to be set.
ValidateAnySet(r) ==
    IF r.TokenizeCompletionRequest.nil /\ r.TokenizeChatRequest.nil
    THEN "one request type must be set"
    ELSE "nil"

\* TokenizeRequestUnion.Validate: the error, or "nil"
Validate(r) ==
    IF ~r.TokenizeCompletionRequest.nil /\ ~r.TokenizeChatRequest.nil
    THEN "only one request type can be set"
    ELSE IF r.TokenizeCompletionRequest.nil /\ r.TokenizeChatRequest.nil
    THEN "one request type must be set"
    ELSE "nil"

RequestBytes(format, model) == [format |-> format, model |-> model]
NoRequestBytes == RequestBytes("nil", "")
\* sjson.SetBytesOptions(original, "model", modelNameOverride, sjsonOptions)
SetModel(original, model) == [original EXCEPT !.model = model]

\* the headers returned with a body: the path, and the length when there is one
RequestHeaders(path, body) ==
    IF body = NoRequestBytes THEN <<<<pathHeaderName, [text |-> path]>>>>
    ELSE <<<<pathHeaderName, [text |-> path]>>, <<contentLengthHeaderName, Itoa(body)>>>>

\* What RequestBody returns, and o.requestModel when it returns.
Translated(headers, body, model) ==
    [err |-> "nil", newHeaders |-> headers, newBody |-> body, requestModel |-> model]
Rejected(msg, model) ==
    [err |-> msg, newHeaders |-> <<>>, newBody |-> NoRequestBytes, requestModel |-> model]

TokTranslators ==
    {"OpenAITokenize", "GCPAnthropicTokenize", "AWSBedrockTokenize", "GCPVertexAITokenize"}

\* TranslatorV1Tokenize.RequestBody
OpenAITokenizeRequestBody(override, model0, original, r, forceBodyMutation) ==
    IF Validate(r) # "nil" THEN Rejected("invalid tokenize request: " \o Validate(r), model0)
    ELSE LET model == IF ~r.TokenizeCompletionRequest.nil
                      THEN r.TokenizeCompletionRequest.Model
                      ELSE r.TokenizeChatRequest.Model
             set == IF override # "" THEN SetModel(original, override) ELSE NoRequestBytes
             newBody == IF forceBodyMutation /\ set = NoRequestBytes THEN original ELSE set
         IN  Translated(RequestHeaders("/tokenize", newBody), newBody,
                        IF override # "" THEN override ELSE model)

\* buildGCPModelPathSuffix(publisher, model, method):
\* publishers/{publisher}/models/{model}:{method}
buildGCPModelPathSuffix(publisher, model, method) ==
    "publishers/" \o publisher \o "/models/" \o model \o ":" \o method
gcpModelPublisherAnthropic == "anthropic"
gcpModelPublisherGoogle == "google"
gcpMethodRawPredict == "rawPredict"
gcpMethodCountTokens == "countTokens"

\* ToGCPAnthropicTranslatorV1Tokenize.RequestBody,
\* ToAWSBedrockTranslatorV1Tokenize.RequestBody and
\* ToGCPVertexAITranslatorV1Tokenize.RequestBody
ProviderTokenizeRequestBody(t, override, model0, r) ==
    IF Validate(r) # "nil" THEN Rejected("invalid tokenize request: " \o Validate(r), model0)
    ELSE IF r.TokenizeChatRequest.nil
    THEN Rejected("only TokenizeChatRequest is supported", model0)
    ELSE LET model == IF override # "" THEN override ELSE r.TokenizeChatRequest.Model
             path == CASE t = "GCPAnthropicTokenize" ->
                            buildGCPModelPathSuffix(gcpModelPublisherAnthropic, "count-tokens",
                                                    gcpMethodRawPredict)
                      [] t = "AWSBedrockTokenize" -> "/model/" \o model \o "/count-tokens"
                      [] OTHER -> buildGCPModelPathSuffix(gcpModelPublisherGoogle, model,
                                                          gcpMethodCountTokens)
             newBody == RequestBytes(t, model)
         IN  Translated(RequestHeaders(path, newBody), newBody, model)

RequestBody(t, override, model0, original, r, forceBodyMutation) ==
    IF t = "OpenAITokenize"
    THEN OpenAITokenizeRequestBody(override, model0, original, r, forceBodyMutation)
    ELSE ProviderTokenizeRequestBody(t, override, model0, r)

ModelNames == {"gpt-4", "claude-x"}
TokenizeRequests ==
    {RequestUnion(completion, chat) :
        completion \in {NilRequest} \cup {Request(m) : m \in ModelNames},
        chat \in {NilRequest} \cup {Request(m) : m \in ModelNames}}

\* The model the original body names: that of the member that is set.
OriginalOf(r) ==
    RequestBytes("tokenize", IF ~r.TokenizeChatRequest.nil THEN r.TokenizeChatRequest.Model
                             ELSE r.TokenizeCompletionRequest.Model)

TokInit ==
    /\ tr \in TokTranslators
    /\ pc = "new"
    /\ modelNameOverride \in {"", "override-model"}
    /\ req \in [union : TokenizeRequests, forceBodyMutation : BOOLEAN]
    /\ requestModel = ""
    /\ reqResult = <<>>
    /\ StreamIdle /\ SchemaIdle /\ ErrIdle /\ UsageIdle /\ ReqIdle

\* The RequestBody call of the exchange.
TokRequestBody ==
    /\ pc = "new"
    /\ LET result == RequestBody(tr, modelNameOverride, requestModel, OriginalOf(req.union),
                                 req.union, req.forceBodyMutation)
       IN  /\ reqResult' = [err |-> result.err, newHeaders |-> result.newHeaders,
                            newBody |-> result.newBody]
           /\ requestModel' = result.requestModel
    /\ pc' = "returned"
    /\ UNCHANGED <<tr, modelNameOverride, req, streamVars, schemaVars, errVars, usageVars,
                   reqVars>>

TokNext == TokRequestBody

SpecTok == TokInit /\ [][TokNext]_vars

(***************************************************************************)
(* TokenizeEndpointSpec.ParseBody.  The body of a tokenize request is JSON *)
(* text, an object with some of the members of the two request types, or   *)
(* text that is no JSON.                                                   *)
(***************************************************************************)
Absent == [t |-> "absent", v |-> 0]
Opt(key, val) == IF val.t = "absent" THEN EmptyFcn ELSE key :> val
TokenizeDoc(model, messages, prompt, continue, generation) ==
    Map(Opt("model", model) @@ Opt("messages", messages) @@ Opt("prompt", prompt)
        @@ Opt("continue_final_message", continue)
        @@ Opt("add_generation_prompt", generation))
TokenizeDocs ==
    {TokenizeDoc(model, messages, prompt, continue, generation) :
        model \in {Absent} \cup {Str(m) : m \in ModelNames},
        messages \in {Absent, Nil, List(<<>>), List(<<Str("user: hi")>>), Str("hi")},
        prompt \in {Absent, Str("hi"), List(<<>>)},
        continue \in {Absent, Bool(TRUE)},
        generation \in {Absent, Bool(TRUE)}}
TokenizeBodies ==
    {JSONBody("compact", doc) : doc \in TokenizeDocs \cup {Nil, List(<<>>)}}
        \cup {TextBody("{\"model\": ")}

\* encoding/json into a struct field: a member that is absent or null leaves
\* the field alone, any other value must have the kind of the field.
FieldFits(m, k, kind) == k \notin DOMAIN m.v \/ m.v[k].t \in {kind, "nil"}
StringOr(m, k) == IF k \in DOMAIN m.v /\ m.v[k].t = "str" THEN m.v[k].v ELSE ""
BoolOr(m, k) == k \in DOMAIN m.v /\ m.v[k].t = "bool" /\ m.v[k].v
\* json.Unmarshal(body, &rawRequest) == nil, rawRequest a map[string]any
UnmarshalsAsObject(body) == body.k = "json" /\ body.doc.t \in {"map", "nil"}
MembersOf(body) == IF body.doc.t = "map" THEN body.doc ELSE Map(EmptyFcn)
\* json.Unmarshal(body, &chatReq) == nil
UnmarshalsAsChat(m) ==
    /\ FieldFits(m, "model", "str") /\ FieldFits(m, "messages", "list")
    /\ FieldFits(m, "continue_final_message", "bool")
    /\ FieldFits(m, "add_generation_prompt", "bool")
\* json.Unmarshal(body, &completionReq) == nil
UnmarshalsAsCompletion(m) == FieldFits(m, "model", "str") /\ FieldFits(m, "prompt", "str")
\* TokenizeChatRequest.Validate
ValidateChat(m) ==
    IF BoolOr(m, "continue_final_message") /\ BoolOr(m, "add_generation_prompt")
    THEN "cannot set both continue_final_message and add_generation_prompt to true"
    ELSE "nil"

\* What ParseBody returns: (model, req, err).
TokenizeParsed(model, union) == [err |-> "nil", model |-> model, req |-> union]
TokenizeUnparsed(msg) ==
    [err |-> msg, model |-> "", req |-> RequestUnion(NilRequest, NilRequest)]

\* TokenizeEndpointSpec.ParseBody
TokenizeParseBody(body) ==
    IF ~UnmarshalsAsObject(body) THEN TokenizeUnparsed("failed to unmarshal tokenize request")
    ELSE LET rawRequest == MembersOf(body)
             hasMessages == "messages" \in DOMAIN rawRequest.v
             model == StringOr(rawRequest, "model")
             union == IF hasMessages THEN RequestUnion(NilRequest, Request(model))
                      ELSE RequestUnion(Request(model), NilRequest)
         IN  IF hasMessages /\ ~UnmarshalsAsChat(rawRequest)
             THEN TokenizeUnparsed("failed to unmarshal chat tokenize request")
             ELSE IF hasMessages /\ ValidateChat(rawRequest) # "nil"
             THEN TokenizeUnparsed("invalid chat tokenize request: " \o ValidateChat(rawRequest))
             ELSE IF ~hasMessages /\ ~UnmarshalsAsCompletion(rawRequest)
             THEN TokenizeUnparsed("failed to unmarshal completion tokenize request")
             ELSE IF Validate(union) # "nil"
             THEN TokenizeUnparsed("invalid tokenize request: " \o Validate(union))
             ELSE TokenizeParsed(model, union)

ParseInit ==
    /\ tr = "TokenizeEndpointSpec"
    /\ pc = "new"
    /\ rawBody \in TokenizeBodies
    /\ bodyBuf = rawBody
    /\ costConfigured = FALSE
    /\ parsed = <<>>
    /\ attempts = <<>>
    /\ upstream = <<>> /\ response = <<>>
    /\ StreamIdle /\ SchemaIdle /\ ErrIdle /\ UsageIdle /\ TokIdle

\* The ParseBody call on the bytes of the client's tokenize request.
ParseTokenizeBody ==
    /\ pc = "new"
    /\ parsed' = TokenizeParseBody(rawBody)
    /\ pc' = "parsed"
    /\ UNCHANGED <<tr, rawBody, bodyBuf, costConfigured, attempts, upstream, response>>
    /\ UNCHANGED <<streamVars, schemaVars, errVars, usageVars, tokVars>>

ParseNext == ParseTokenizeBody

SpecParse == ParseInit /\ [][ParseNext]_vars

(***************************************************************************)
(* The chat completion request.  Its bytes are a JSON object text: the     *)
(* layout, the members in the order written (a key may be written more     *)
(* than once) and what follows the closing brace in the buffer.            *)
(***************************************************************************)
Member(key, val) == [key |-> key, val |-> val]
Obj(members) == [t |-> "obj", v |-> members]
ChatBytes(ws, members) == [k |-> "json", ws |-> ws, members |-> members, tail |-> ""]
\* a nil []byte
NoChatBytes == [k |-> "nil", ws |-> "-", members |-> <<>>, tail |-> ""]

\* openai.StreamOptions behind its pointer, and openai.ChatCompletionRequest
NilOptions == [nil |-> TRUE, IncludeUsage |-> FALSE]
Options(b) == [nil |-> FALSE, IncludeUsage |-> b]
ZeroRequest == [err |-> FALSE, Model |-> "", Stream |-> FALSE, StreamOptions |-> NilOptions]

\* encoding/json decodes the members in the order written into the same
\* fields: a later member overwrites what an earlier one set, null leaves a
\* value field alone and resets a pointer, an object is decoded into the
\* struct the pointer already holds, a value of another kind is an error.
RECURSIVE DecodeOptionsMembers(_, _)
DecodeOptionsMembers(r, members) ==
    IF members = <<>> THEN r
    ELSE LET m == Head(members)
             r1 == IF m.key # "include_usage" \/ m.val.t = "nil" THEN r
                   ELSE IF m.val.t = "bool"
                   THEN [r EXCEPT !.StreamOptions.IncludeUsage = m.val.v]
                   ELSE [r EXCEPT !.err = TRUE]
         IN  DecodeOptionsMembers(r1, Tail(members))

DecodeMember(r, m) ==
    CASE m.key = "model" ->
           IF m.val.t = "str" THEN [r EXCEPT !.Model = m.val.v]
           ELSE IF m.val.t = "nil" THEN r ELSE [r EXCEPT !.err = TRUE]
      [] m.key = "stream" ->
           IF m.val.t = "bool" THEN [r EXCEPT !.Stream = m.val.v]
           ELSE IF m.val.t = "nil" THEN r ELSE [r EXCEPT !.err = TRUE]
      [] m.key = "stream_options" ->
           IF m.val.t = "nil" THEN [r EXCEPT !.StreamOptions = NilOptions]
           ELSE IF m.val.t = "obj"
           THEN DecodeOptionsMembers([r EXCEPT !.StreamOptions.nil = FALSE], m.val.v)
           ELSE [r EXCEPT !.err = TRUE]
      [] OTHER -> r

RECURSIVE DecodeMembers(_, _)
DecodeMembers(r, members) ==
    IF members = <<>> THEN r
    ELSE DecodeMembers(DecodeMember(r, Head(members)), Tail(members))

\* json.Unmarshal(body, &req) into a zero openai.ChatCompletionRequest
Unmarshal(bytes) ==
    IF bytes.k # "json" \/ bytes.tail # "" THEN [ZeroRequest EXCEPT !.err = TRUE]
    ELSE DecodeMembers(ZeroRequest, bytes.members)

\* json.Marshal(openAIReq): the fields in the order of the struct, the
\* empty ones left out, no white space.
MarshalRequest(r) ==
    ChatBytes("compact",
        <<Member("model", Str(r.Model))>> \o
        (IF r.Stream THEN <<Member("stream", Bool(TRUE))>> ELSE <<>>) \o
        (IF r.StreamOptions.nil THEN <<>>
         ELSE <<Member("stream_options",
                       Obj(IF r.StreamOptions.IncludeUsage
                           THEN <<Member("include_usage", Bool(TRUE))>> ELSE <<>>))>>))

\* gjson.Get on one path component: the first member written with the key
\* (0 when there is none).
FirstIndex(members, key) ==
    IF \E i \in 1..Len(members) : members[i].key = key
    THEN CHOOSE i \in 1..Len(members) :
            /\ members[i].key = key
            /\ \A j \in 1..(i - 1) : members[j].key # key
    ELSE 0

IncludeUsageTrue == Member("include_usage", Bool(TRUE))

\* sjson.SetBytesOptions(body, "stream_options.include_usage", true,
\* {Optimistic, ReplaceInPlace}): [bytes (the slice returned), buf (what the
\* buffer of body holds afterwards)].  A value found on the path is
\* overwritten where it stands, inside the buffer of body; else the member
\* is added at the end of the object found at "stream_options", which is
\* created (in place of a value that is no object) when there is none.
SetIncludeUsage(body) ==
    LET i == FirstIndex(body.members, "stream_options")
    IN  IF i = 0
        THEN [bytes |-> [body EXCEPT !.members =
                            Append(@, Member("stream_options", Obj(<<IncludeUsageTrue>>)))],
              buf |-> body]
        ELSE LET so == body.members[i].val
                 j == IF so.t = "obj" THEN FirstIndex(so.v, "include_usage") ELSE 0
             IN  IF so.t # "obj"
                 THEN [bytes |-> [body EXCEPT !.members[i].val = Obj(<<IncludeUsageTrue>>)],
                       buf |-> body]
                 ELSE IF j = 0
                 THEN [bytes |-> [body EXCEPT !.members[i].val.v = Append(@, IncludeUsageTrue)],
                       buf |-> body]
                 ELSE LET set == [body EXCEPT !.members[i].val.v[j].val = Bool(TRUE)]
                      IN  [bytes |-> set,
                           buf |-> IF so.v[j].val = Bool(TRUE) THEN set
                                   ELSE [set EXCEPT !.tail = "}"]]

\* ChatCompletionsEndpointSpec.ParseBody:
\* (originalModel, req, stream, mutatedBody, err) and the buffer of body.
ParseBody(body, cost) ==
    LET r == Unmarshal(body)
    IN  IF r.err
        THEN [err |-> "failed to unmarshal chat completion request", originalModel |-> "",
              req |-> ZeroRequest, stream |-> FALSE, mutatedBody |-> NoChatBytes, buf |-> body]
        ELSE IF r.Stream /\ cost /\ (r.StreamOptions.nil \/ ~r.StreamOptions.IncludeUsage)
        THEN LET set == SetIncludeUsage(body)
             IN  [err |-> "nil", originalModel |-> r.Model,
                  req |-> [r EXCEPT !.StreamOptions = Options(TRUE)],
                  stream |-> r.Stream, mutatedBody |-> set.bytes, buf |-> set.buf]
        ELSE [err |-> "nil", originalModel |-> r.Model, req |-> r, stream |-> r.Stream,
              mutatedBody |-> NoChatBytes, buf |-> body]

(***************************************************************************)
(* RequestBody of the chat completion translators of the Bedrock           *)
(* InvokeModel API.  o is the translator: its modelNameOverride, and the   *)
(* requestModel and stream it holds from an earlier call.                  *)
(***************************************************************************)
\* url.PathEscape: "/" is escaped, ":" is not.
PathEscape(model) ==
    CASE model = "arn:aws:bedrock:model/gpt-4" -> "arn:aws:bedrock:model%2Fgpt-4"
      [] OTHER -> model
InvokePath(model, streaming) ==
    "/model/" \o PathEscape(model) \o
    (IF streaming THEN "/invoke-with-response-stream" ELSE "/invoke")

ChatTranslated(o, path, body, streaming) ==
    [err |-> "nil",
     newHeaders |-> <<<<pathHeaderName, [text |-> path]>>,
                      <<contentLengthHeaderName, Itoa(body)>>>>,
     newBody |-> body,
     requestModel |-> IF o.modelNameOverride # "" THEN o.modelNameOverride ELSE o.Model,
     stream |-> streaming]
ChatRejected(o, msg, streaming) ==
    [err |-> msg, newHeaders |-> <<>>, newBody |-> NoChatBytes,
     requestModel |-> IF o.modelNameOverride # "" THEN o.modelNameOverride ELSE o.Model,
     stream |-> streaming]

\* A RequestBody that re-encodes the body once the translator has recorded a
\* request model.
AwsOpenAIRequestBodyReencoding(o, raw, r) ==
    LET u == Unmarshal(raw)
        model == IF o.modelNameOverride # "" THEN o.modelNameOverride ELSE r.Model
        on == [o EXCEPT !.Model = r.Model]
    IN  IF o.requestModel # "" \/ o.modelNameOverride # ""
        THEN ChatTranslated(on, InvokePath(model, r.Stream),
                            MarshalRequest([u EXCEPT !.Model = model]), o.stream \/ r.Stream)
        ELSE ChatTranslated(on, InvokePath(model, r.Stream), raw, o.stream \/ r.Stream)

\* A RequestBody that forwards the body with the model the client named.
AwsOpenAIRequestBodyKeepingModel(o, raw, r) ==
    LET model == IF o.modelNameOverride # "" THEN o.modelNameOverride ELSE r.Model
    IN  ChatTranslated([o EXCEPT !.Model = r.Model], InvokePath(model, r.Stream), raw,
                       o.stream \/ r.Stream)

\* openAIToAwsOpenAITranslatorV1ChatCompletion.RequestBody
AwsOpenAIRequestBody(o, raw, r) ==
    LET u == Unmarshal(raw)
        model == IF o.modelNameOverride # "" THEN o.modelNameOverride ELSE r.Model
        on == [o EXCEPT !.Model = r.Model]
    IN  IF o.modelNameOverride # ""
        THEN IF u.err THEN ChatRejected(on, "failed to unmarshal request", o.stream \/ r.Stream)
             ELSE ChatTranslated(on, InvokePath(model, r.Stream),
                                 MarshalRequest([u EXCEPT !.Model = o.modelNameOverride]),
                                 o.stream \/ r.Stream)
        ELSE ChatTranslated(on, InvokePath(model, r.Stream), raw, o.stream \/ r.Stream)

BedrockDefaultVersion == "bedrock-2023-05-31"
\* buildAnthropicParams(openAIReq), marshalled: the Anthropic message
\* parameters, a function of the request alone.
buildAnthropicParams(r) ==
    <<Member("model", Str(r.Model))>> \o
    (IF r.Stream THEN <<Member("stream", Bool(TRUE))>> ELSE <<>>)

\* openAIToAWSAnthropicTranslatorV1ChatCompletion.RequestBody (apiVersion "")
AWSAnthropicRequestBody(o, raw, r) ==
    LET model == IF o.modelNameOverride # "" THEN o.modelNameOverride ELSE r.Model
        body == ChatBytes("compact",
                    Append(buildAnthropicParams(r),
                           Member("anthropic_version", Str(BedrockDefaultVersion))))
    IN  ChatTranslated([o EXCEPT !.Model = r.Model], InvokePath(model, r.Stream), body,
                       o.stream \/ r.Stream)

\* A deployment RequestBody that reports the length of an empty object.
AwsOpenAIDeploymentRequestBodyOfFirstLength(o, raw, r, forceBodyMutation) ==
    LET model == IF o.modelNameOverride # "" THEN o.modelNameOverride ELSE r.Model
        path == "/openai/deployments/" \o model \o "/chat/completions?api-version=v1"
    IN  [err |-> "nil",
         newHeaders |-> <<<<pathHeaderName, [text |-> path]>>>> \o
                        (IF forceBodyMutation
                         THEN <<<<contentLengthHeaderName,
                                  Itoa(ChatBytes("compact", <<>>))>>>>
                         ELSE <<>>),
         newBody |-> NoChatBytes,
         requestModel |-> model,
         stream |-> o.stream \/ r.Stream]

\* openAIToAwsOpenAITranslatorV1ChatCompletion.RequestBody, the one that
\* routes to a deployment (apiVersion "v1")
AwsOpenAIDeploymentRequestBody(o, raw, r, forceBodyMutation) ==
    LET model == IF o.modelNameOverride # "" THEN o.modelNameOverride ELSE r.Model
        path == "/openai/deployments/" \o model \o "/chat/completions?api-version=v1"
    IN  [err |-> "nil",
         newHeaders |-> <<<<pathHeaderName, [text |-> path]>>>> \o
                        (IF forceBodyMutation
                         THEN <<<<contentLengthHeaderName, Itoa(raw)>>>> ELSE <<>>),
         newBody |-> NoChatBytes,
         requestModel |-> model,
         stream |-> o.stream \/ r.Stream]

ChatRequestBody(t, o, raw, r, forceBodyMutation) ==
    CASE t = "AwsOpenAI" -> AwsOpenAIRequestBody(o, raw, r)
      [] t = "AwsOpenAIDeployment" ->
           AwsOpenAIDeploymentRequestBody(o, raw, r, forceBodyMutation)
      [] OTHER -> AWSAnthropicRequestBody(o, raw, r)

(***************************************************************************)
(* An exchange up to its RequestBody calls: ParseBody once, then one       *)
(* RequestBody call for each attempt to reach a backend.                   *)
(***************************************************************************)
\* RequestBody calls in one exchange.
MaxAttempts == 2
\* Members of a chat completion request after its model.
MaxMembers == 2

ChatTranslators == {"AwsOpenAI", "AWSAnthropic"}
ChatModels == {"gpt-4", "arn:aws:bedrock:model/gpt-4"}
ChatMembers ==
    {Member("stream", Bool(TRUE)), Member("stream", Bool(FALSE)),
     Member("stream_options", Nil), Member("stream_options", Obj(<<>>)),
     Member("stream_options", Obj(<<Member("include_usage", Bool(FALSE))>>)),
     Member("stream_options", Obj(<<IncludeUsageTrue>>)),
     Member("stream_options", Obj(<<IncludeUsageTrue, Member("include_usage", Bool(FALSE))>>)),
     Member("stream_options", Str("usage"))}
ChatBodies ==
    {ChatBytes(ws, <<Member("model", Str(m))>> \o rest) :
        ws \in {"compact", "pretty"}, m \in ChatModels,
        rest \in SeqsUpTo(ChatMembers, MaxMembers)}

RetryInit ==
    /\ tr \in ChatTranslators \cup {"OpenAITokenize"}
    /\ modelNameOverride \in {"", "override-model"}
    /\ IF tr \in ChatTranslators
       THEN /\ pc = "new"
            /\ rawBody \in ChatBodies
            /\ costConfigured \in BOOLEAN
            /\ req = <<>>
       ELSE /\ pc = "parsed"
            /\ rawBody = <<>>
            /\ costConfigured = FALSE
            /\ req \in [union : {u \in TokenizeRequests : Validate(u) = "nil"},
                        forceBodyMutation : {TRUE}]
    /\ bodyBuf = rawBody
    /\ parsed = <<>>
    /\ attempts = <<>>
    /\ upstream = <<>> /\ response = <<>>
    /\ requestModel = ""
    /\ reqResult = <<>>
    /\ stream = FALSE
    /\ wire = <<>> /\ pending = <<>> /\ bufferedBody = <<>>
    /\ out = <<>> /\ lastBody = <<>> /\ calls = 0
    /\ streamingResponseModel = "" /\ respUsage = <<>> /\ respModel = ""
    /\ SchemaIdle /\ ErrIdle /\ UsageIdle

\* ParseBody on the bytes of the client's request.
RetryParseBody ==
    /\ pc = "new"
    /\ LET result == ParseBody(rawBody, costConfigured)
       IN  /\ parsed' = [err |-> result.err, originalModel |-> result.originalModel,
                         req |-> result.req, stream |-> result.stream,
                         mutatedBody |-> result.mutatedBody]
           /\ bodyBuf' = result.buf
           /\ pc' = IF result.err = "nil" THEN "parsed" ELSE "failed"
    /\ UNCHANGED <<tr, rawBody, costConfigured, attempts, upstream, response>>
    /\ UNCHANGED <<streamVars, schemaVars, errVars, usageVars, tokVars>>

\* One RequestBody call of a chat completion translator.  raw is the body
\* ParseBody rewrote when it rewrote one, else the bytes of the client.
RetryChatRequestBody ==
    /\ pc = "parsed"
    /\ tr \in ChatTranslators \cup {"AwsOpenAIDeployment"}
    /\ Len(attempts) < MaxAttempts
    /\ \E forceBodyMutation \in BOOLEAN :
          LET raw == IF parsed.mutatedBody # NoChatBytes THEN parsed.mutatedBody ELSE bodyBuf
              o == [modelNameOverride |-> modelNameOverride, requestModel |-> requestModel,
                    stream |-> stream, Model |-> ""]
              result == ChatRequestBody(tr, o, raw, parsed.req, forceBodyMutation)
          IN  /\ attempts' = Append(attempts,
                     [forceBodyMutation |-> forceBodyMutation, raw |-> raw,
                      err |-> result.err, newHeaders |-> result.newHeaders,
                      newBody |-> result.newBody])
              /\ requestModel' = result.requestModel
              /\ stream' = result.stream
    /\ UNCHANGED <<tr, pc, rawBody, bodyBuf, costConfigured, parsed, upstream, response>>
    /\ UNCHANGED <<wire, pending, bufferedBody, out, lastBody, calls>>
    /\ UNCHANGED <<streamingResponseModel, respUsage, respModel>>
    /\ UNCHANGED <<modelNameOverride, req, reqResult, schemaVars, errVars, usageVars>>

\* One RequestBody call of the tokenize translator.
RetryTokenizeRequestBody ==
    /\ pc = "parsed"
    /\ tr = "OpenAITokenize"
    /\ Len(attempts) < MaxAttempts
    /\ LET raw == OriginalOf(req.union)
           result == RequestBody(tr, modelNameOverride, requestModel, raw, req.union,
                                 req.forceBodyMutation)
       IN  /\ attempts' = Append(attempts,
                  [forceBodyMutation |-> req.forceBodyMutation, raw |-> raw,
                   err |-> result.err, newHeaders |-> result.newHeaders,
                   newBody |-> result.newBody])
           /\ requestModel' = result.requestModel
    /\ UNCHANGED <<tr, pc, rawBody, bodyBuf, costConfigured, parsed, upstream, response>>
    /\ UNCHANGED <<streamVars, schemaVars, errVars, usageVars>>
    /\ UNCHANGED <<modelNameOverride, req, reqResult>>

RetryNext == RetryParseBody \/ RetryChatRequestBody \/ RetryTokenizeRequestBody

SpecRetry == RetryInit /\ [][RetryNext]_vars

(***************************************************************************)
(* ResponseBody of a non-streaming exchange.  The upstream body is its     *)
(* bytes: a JSON text, a JSON text followed by further bytes, or a text    *)
(* that is no JSON.                                                        *)
(***************************************************************************)
Num(n) == [t |-> "num", v |-> n]
JSONThenBytes(ws, doc) == [k |-> "json+tail", ws |-> ws, doc |-> doc]
NumberField(m, k) == IF m.t = "map" /\ k \in DOMAIN m.v THEN m.v[k].v ELSE 0

\* encoding/json into a response struct: an object whose members have the
\* kinds of the fields, or null (which leaves the struct as it is).
FitsResponse(doc) ==
    \/ doc.t = "nil"
    \/ /\ doc.t = "map"
       /\ FieldIs(doc, "model", "str") /\ FieldIs(doc, "usage", "map")
       /\ FieldIs(doc, "count", "num")
\* json.Unmarshal(buf, &resp) == nil: the whole of buf is one JSON text
UnmarshalsAsResponse(body) == body.k = "json" /\ FitsResponse(body.doc)
\* json.NewDecoder(body).Decode(&resp) == nil: the next JSON text of the
\* body is read, what follows it is not looked at
DecodesAsResponse(body) == body.k \in {"json", "json+tail"} /\ FitsResponse(body.doc)

ResponseModelOf(doc) == IF doc.t = "map" THEN StringField(doc, "model").v ELSE ""
ResponseUsageOf(doc) == IF doc.t = "map" THEN ObjectField(doc, "usage") ELSE Map(EmptyFcn)
\* openAIResp.Usage of a decoded OpenAI-format response
OpenAIUsageOf(doc) ==
    LET u == ResponseUsageOf(doc)
    IN  [PromptTokens |-> NumberField(u, "prompt_tokens"),
         CompletionTokens |-> NumberField(u, "completion_tokens"),
         TotalTokens |-> NumberField(u, "total_tokens"),
         PromptTokensDetails |-> Unset]

\* json.Marshal of the response struct: compact, the fields of the struct.
MarshalResponse(model, usageDoc) ==
    Marshal(Map(("model" :> Str(model)) @@ ("usage" :> usageDoc)))

\* What ResponseBody returns:
\* (newHeaders, newBody, tokenUsage, responseModel, err).
Answered(body, counted, model) ==
    [err |-> "nil",
     newHeaders |-> IF body = NoBody THEN <<>>
                    ELSE <<<<contentLengthHeaderName, Itoa(body)>>>>,
     newBody |-> body, tokenUsage |-> counted, responseModel |-> model]
Undecoded(msg, counted, model) ==
    [err |-> msg, newHeaders |-> <<>>, newBody |-> NoBody, tokenUsage |-> counted,
     responseModel |-> model]

\* A ResponseBody that reports the request model whatever the response names.
AwsOpenAIResponseBodyOfRequestModel(model0, body) ==
    IF ~UnmarshalsAsResponse(body)
    THEN Undecoded("failed to unmarshal response", EmptyTokenUsage, "")
    ELSE Answered(MarshalResponse(ResponseModelOf(body.doc), ResponseUsageOf(body.doc)),
                  AwsOpenAIUsage(OpenAIUsageOf(body.doc)), model0)

\* openAIToAwsOpenAITranslatorV1ChatCompletion.ResponseBody, o.stream false
AwsOpenAIResponseBody(model0, body) ==
    IF ~UnmarshalsAsResponse(body)
    THEN Undecoded("failed to unmarshal response", EmptyTokenUsage, "")
    ELSE Answered(MarshalResponse(ResponseModelOf(body.doc), ResponseUsageOf(body.doc)),
                  AwsOpenAIUsage(OpenAIUsageOf(body.doc)),
                  IF ResponseModelOf(body.doc) # "" THEN ResponseModelOf(body.doc)
                  ELSE model0)

\* messageToChatCompleion(anthropicResp, responseModel): the usage of the
\* message, and the response with the model handed in.
messageToChatCompleion(doc, responseModel) ==
    LET u == ResponseUsageOf(doc)
    IN  [openAIResp |-> MarshalResponse(responseModel,
                            Map(("prompt_tokens" :> Num(NumberField(u, "input_tokens"))) @@
                                ("completion_tokens" :> Num(NumberField(u, "output_tokens"))))),
         tokenUsage |-> ExtractTokenUsageFromAnthropic(NumberField(u, "input_tokens"),
                            NumberField(u, "output_tokens"), 0, 0)]

\* openAIToAWSAnthropicTranslatorV1ChatCompletion.ResponseBody,
\* o.streamParser nil
AWSAnthropicResponseBody(model0, body) ==
    IF ~DecodesAsResponse(body)
    THEN Undecoded("failed to unmarshal body", EmptyTokenUsage, "")
    ELSE LET responseModel == IF ResponseModelOf(body.doc) # ""
                              THEN ResponseModelOf(body.doc) ELSE model0
             m == messageToChatCompleion(body.doc, responseModel)
         IN  Answered(m.openAIResp, m.tokenUsage, responseModel)

\* TranslatorV1Tokenize.ResponseBody
OpenAITokenizeResponseBody(model0, body) ==
    IF ~DecodesAsResponse(body)
    THEN Undecoded("failed to unmarshal body", EmptyTokenUsage, "")
    ELSE Answered(NoBody, EmptyTokenUsage, model0)

ResponseBody(t, model0, body) ==
    CASE t = "AwsOpenAI" -> AwsOpenAIResponseBody(model0, body)
      [] t = "AWSAnthropic" -> AWSAnthropicResponseBody(model0, body)
      [] OTHER -> OpenAITokenizeResponseBody(model0, body)

\* The upstream responses.
WireModel == "served-model"
WireUsage(t) ==
    IF t = "AWSAnthropic"
    THEN Map(("input_tokens" :> Num(1)) @@ ("output_tokens" :> Num(1)))
    ELSE Map(("prompt_tokens" :> Num(1)) @@ ("completion_tokens" :> Num(1)) @@
             ("total_tokens" :> Num(2)))
ResponseDocs(t) ==
    IF t = "OpenAITokenize"
    THEN {Map("count" :> Num(2)), Map("count" :> Str("two")), Map(EmptyFcn), List(<<>>), Nil}
    ELSE {Map(("model" :> Str(WireModel)) @@ ("usage" :> WireUsage(t))),
          Map("usage" :> WireUsage(t)),
          Map("model" :> Str("")),
          Map("model" :> Num(1)),
          Map(EmptyFcn), List(<<>>), Nil}
ResponseBodies(t) ==
    {JSONBody(ws, doc) : ws \in {"compact", "pretty"}, doc \in ResponseDocs(t)} \cup
    {JSONThenBytes("compact", doc) : doc \in ResponseDocs(t)} \cup
    {TextBody("Service Unavailable"), TextBody("")}

\* The requests of a non-streaming exchange.
PlainChatBodies ==
    {ChatBytes(ws, <<Member("model", Str(m))>> \o rest) :
        ws \in {"compact", "pretty"}, m \in ChatModels,
        rest \in {<<>>, <<Member("stream", Bool(FALSE))>>}}

ExchangeInit ==
    /\ tr \in ChatTranslators \cup {"AwsOpenAIDeployment", "OpenAITokenize"}
    /\ modelNameOverride \in {"", "override-model"}
    /\ IF tr # "OpenAITokenize"
       THEN /\ pc = "new"
            /\ rawBody \in PlainChatBodies
            /\ costConfigured \in BOOLEAN
            /\ req = <<>>
       ELSE /\ pc = "parsed"
            /\ rawBody = <<>>
            /\ costConfigured = FALSE
            /\ req \in [union : {u \in TokenizeRequests : Validate(u) = "nil"},
                        forceBodyMutation : BOOLEAN]
    /\ bodyBuf = rawBody
    /\ parsed = <<>>
    /\ attempts = <<>>
    /\ upstream \in ResponseBodies(tr)
    /\ response = <<>>
    /\ requestModel = ""
    /\ reqResult = <<>>
    /\ StreamIdle /\ SchemaIdle /\ ErrIdle /\ UsageIdle

\* The ResponseBody call of the exchange, on the response to the request
\* the last RequestBody call translated.
ExchangeResponseBody ==
    /\ pc = "parsed"
    /\ tr # "AwsOpenAIDeployment"
    /\ attempts # <<>>
    /\ attempts[Len(attempts)].err = "nil"
    /\ ~stream
    /\ response' = ResponseBody(tr, requestModel, upstream)
    /\ pc' = "answered"
    /\ UNCHANGED <<tr, rawBody, bodyBuf, costConfigured, parsed, attempts, upstream>>
    /\ UNCHANGED <<streamVars, schemaVars, errVars, usageVars, tokVars>>

\* The upstream error responses of the exchange.
ExchangeErrorHeaders ==
    {(statusHeaderName :> "503") @@ ct :
        ct \in {EmptyFcn} \cup
               {contentTypeHeaderName :> c : c \in {"application/json", "text/plain"}}}
ExchangeErrorBodies ==
    {JSONBody("pretty", EnvelopeDoc), JSONBody("compact", AWSDoc),
     TextBody("Service Unavailable"), TextBody("")}

\* The ResponseError call of the exchange, when the upstream answered the
\* request of the last RequestBody call with an error.
ExchangeResponseError ==
    /\ pc = "parsed"
    /\ tr # "AwsOpenAIDeployment"
    /\ attempts # <<>>
    /\ attempts[Len(attempts)].err = "nil"
    /\ \E headers \in ExchangeErrorHeaders, body \in ExchangeErrorBodies :
          /\ respHeaders' = headers
          /\ errBody' = body
          /\ errResult' = ResponseError(tr, headers, body)
    /\ pc' = "failed upstream"
    /\ UNCHANGED <<tr, streamVars, schemaVars, usageVars, tokVars, reqVars>>

ExchangeNext == RetryNext \/ ExchangeResponseBody \/ ExchangeResponseError

SpecExchange == ExchangeInit /\ [][ExchangeNext]_vars

(***************************************************************************)
(* The routing path, character by character.  A model name is a sequence   *)
(* of characters; the fixed words of a path template stand as one symbol   *)
(* each.  The repository holds two RequestBody implementations for         *)
(* openAIToAwsOpenAITranslatorV1ChatCompletion: the InvokeModel one        *)
(* ("AwsOpenAI") and the one that routes to a deployment                   *)
(* ("AwsOpenAIDeployment").                                                *)
(***************************************************************************)
\* Characters of a model name.
MaxName == 3
NameChars == {"m", ":", "/", " "}
ModelNameSeqs == SeqsUpTo(NameChars, MaxName)

\* url.PathEscape: shouldEscape(c, encodePathSegment) is false for letters,
\* digits, "-_.~" and for "$&+=:@"; every other byte is written as %XX.
shouldEscape(c) == c \notin {"m", ":"}
Hex(c) == IF c = "/" THEN <<"%", "2", "F">> ELSE <<"%", "2", "0">>
RECURSIVE PathEscapeSeq(_)
PathEscapeSeq(name) ==
    IF name = <<>> THEN <<>>
    ELSE (IF shouldEscape(Head(name)) THEN Hex(Head(name)) ELSE <<Head(name)>>)
         \o PathEscapeSeq(Tail(name))

\* fmt.Sprintf("/model/%s/invoke", ..) and its streaming variant
InvokeTemplate(name, streaming) ==
    <<"/", "model", "/">> \o name \o
    <<"/", IF streaming THEN "invoke-with-response-stream" ELSE "invoke">>
\* fmt.Sprintf("/openai/deployments/%s/chat/completions?api-version=%s", ..)
DeploymentTemplate(name, apiVersion) ==
    <<"/", "openai", "/", "deployments", "/">> \o name \o
    <<"/", "chat", "/", "completions", "?", "api-version=", apiVersion>>

\* The path header of RequestBody and the request model it records.
RequestPath(t, override, model, streaming) ==
    LET name == IF override # <<>> THEN override ELSE model
    IN  [path |-> IF t = "AwsOpenAIDeployment" THEN DeploymentTemplate(name, "v1")
                  ELSE InvokeTemplate(PathEscapeSeq(name), streaming),
         requestModel |-> name,
         stream |-> streaming]

PathTranslators == {"AwsOpenAI", "AWSAnthropic", "AwsOpenAIDeployment"}

PathInit ==
    /\ tr \in PathTranslators
    /\ pc = "new"
    /\ modelNameOverride \in SeqsUpTo(NameChars, 1)
    /\ req \in [Model : ModelNameSeqs, Stream : BOOLEAN]
    /\ requestModel = <<>>
    /\ reqResult = <<>>
    /\ StreamIdle /\ SchemaIdle /\ ErrIdle /\ UsageIdle /\ ReqIdle

\* The RequestBody call, as far as the path and the recorded model go.
PathRequestBody ==
    /\ pc = "new"
    /\ LET result == RequestPath(tr, modelNameOverride, req.Model, req.Stream)
       IN  /\ reqResult' = [newHeaders |-> <<<<pathHeaderName, result.path>>>>]
           /\ requestModel' = result.requestModel
    /\ pc' = "returned"
    /\ UNCHANGED <<tr, modelNameOverride, req, streamVars, schemaVars, errVars, usageVars,
                   reqVars>>

PathNext == PathRequestBody

SpecPath == PathInit /\ [][PathNext]_vars

(***************************************************************************)
(* Streaming claims.                                                       *)
(***************************************************************************)
RECURSIVE CountDone(_)
CountDone(s) ==
    IF s = <<>> THEN 0
    ELSE (IF Head(s) = DataLine("done") THEN 1 ELSE 0) + CountDone(Tail(s))

\* The upstream sends [DONE], if at all, as its last event.
DoneOnlyLast == \A i \in 1..Len(wire) : wire[i] = "done" => i = Len(wire)

\* What ResponseBody returns when the whole upstream stream arrives in one
\* call with endOfStream set.
OneShotBody == StreamNewBody(tr, WireBytes(tr, wire), <<>>, TRUE)

\* C1: over the ResponseBody calls of one streaming exchange of the two
\* OpenAI-on-Bedrock translators, the terminal sentinel data line appears in
\* the concatenated output exactly once, also when the upstream delivered it
\* in an earlier call and the end-of-stream call carries no bytes.
C1_SentinelExactlyOnce ==
    (pc = "closed" /\ tr \in {"AwsOpenAI", "AWSInvokeOpenAI"} /\ DoneOnlyLast)
        => CountDone(out) = 1

\* C2: for every split of one binary-framed upstream stream (no [DONE]
\* payload in it) into successive ResponseBody calls, the concatenated
\* output equals the output of delivering the whole stream in one call.
C2_SplitEqualsOneShot ==
    (pc = "closed" /\ tr \in {"AWSInvokeOpenAI", "AWSAnthropic"}
        /\ \A i \in 1..Len(wire) : wire[i] # "done")
        => out = OneShotBody

(***************************************************************************)
(* Sanitizer claims.                                                       *)
(***************************************************************************)
\* The pointers a node refers to directly, without following any of them.
RECURSIVE RefsIn(_)
RefsIn(x) ==
    CASE x.t = "map" ->
           UNION {IF k = "$ref" /\ IsString(x.v[k]) THEN {x.v[k]} ELSE RefsIn(x.v[k]) :
                    k \in DOMAIN x.v}
      [] x.t = "list" -> UNION {RefsIn(x.v[i]) : i \in 1..Len(x.v)}
      [] OTHER -> {}

\* The pointers that resolve, each with its target.
Resolves(doc, r) == jsonSchemaRetrieveRef(r, doc).e = "ok"
Target(doc, r) == jsonSchemaRetrieveRef(r, doc).v

\* The pointers reached from a node: its own and, transitively, those of the
\* targets of the pointers that resolve.
RECURSIVE ReachedFrom(_, _, _)
ReachedFrom(doc, frontier, seen) ==
    IF frontier \subseteq seen THEN seen
    ELSE ReachedFrom(doc,
            UNION {RefsIn(Target(doc, r)) : r \in {f \in frontier \ seen : Resolves(doc, f)}},
            seen \cup frontier)

\* A pointer is on a cycle when resolving it meets it again.
OnCycle(doc, r) == Resolves(doc, r) /\ r \in ReachedFrom(doc, RefsIn(Target(doc, r)), {})
\* The part of the document the walk sets out from: all but "$defs".
Body(doc) == Map([k \in DOMAIN doc.v \ {"$defs"} |-> doc.v[k]])
Cyclic(doc) == \E r \in ReachedFrom(doc, RefsIn(Body(doc)), {}) : OnCycle(doc, r)
\* Every pointer of the document resolves to an object.
AllResolve(doc) == \A r \in RefsIn(doc) : Resolves(doc, r)

\* C3: sanitizing a schema whose $ref pointers form a cycle reached from the
\* root always returns a CircularReference error; never a tree in which the
\* cyclic reference was silently skipped or truncated.
C3_CycleAlwaysCircularReference ==
    (pc = "returned" /\ Cyclic(schemaDoc) /\ AllResolve(schemaDoc))
        => sanitized.e = "CircularReference"

\* How often a pointer is written in a node.
RECURSIVE Occurrences(_, _)
RECURSIVE OccurrencesIn(_, _, _)
OccurrencesIn(x, r, keys) ==
    IF keys = {} THEN 0
    ELSE LET k == CHOOSE y \in keys : TRUE
         IN  (IF k = "$ref" /\ x.v[k] = r THEN 1 ELSE Occurrences(x.v[k], r))
             + OccurrencesIn(x, r, keys \ {k})
Occurrences(x, r) ==
    IF x.t \in {"map", "list"} THEN OccurrencesIn(x, r, DOMAIN x.v) ELSE 0

\* No target of a pointer holds a pointer itself.
FlatTargets(doc) == \A r \in RefsIn(doc) : Resolves(doc, r) => RefsIn(Target(doc, r)) = {}

\* Two sibling properties hold the same pointer.
SiblingReuse(doc) ==
    LET props == doc.v["properties"].v
    IN  \E r \in RefsIn(doc) : props["p"] = Map("$ref" :> r) /\ props["q"] = Map("$ref" :> r)

\* C4: a schema in which two sibling nodes use the same $ref pointer (neither
\* nested inside the resolution of the other) sanitizes without error.
C4_SiblingReuseSanitizes ==
    (pc = "returned" /\ SiblingReuse(schemaDoc) /\ AllResolve(schemaDoc)
        /\ FlatTargets(schemaDoc))
        => sanitized.e = "ok"

\* C5: resolving a $ref whose path has a segment that is absent from the
\* document, or whose segment value is not an object, returns a
\* MissingReference error: no crash, no partial tree.  (Stated for documents
\* with no other defect: every pointer is written once and no target holds a
\* pointer.)
C5_BadSegmentIsMissingReference ==
    (pc = "returned" /\ FlatTargets(schemaDoc)
        /\ (\A r \in RefsIn(schemaDoc) : Occurrences(schemaDoc, r) = 1)
        /\ (\E r \in RefsIn(schemaDoc) : ~Resolves(schemaDoc, r)))
        => sanitized.e = "MissingReference"

\* The keys of the maps of a tree, at every depth.
RECURSIVE KeysAnywhere(_)
KeysAnywhere(x) ==
    CASE x.t = "map" -> DOMAIN x.v \cup UNION {KeysAnywhere(x.v[k]) : k \in DOMAIN x.v}
      [] x.t = "list" -> UNION {KeysAnywhere(x.v[i]) : i \in 1..Len(x.v)}
      [] OTHER -> {}

\* The keys of a tree at every depth, the property names under "properties"
\* excepted (they are names chosen by the schema's author, not schema fields).
RECURSIVE FieldsAnywhere(_)
FieldsAnywhere(x) ==
    CASE x.t = "map" ->
           DOMAIN x.v \cup
           UNION {IF k = "properties" /\ x.v[k].t = "map"
                  THEN UNION {FieldsAnywhere(x.v[k].v[n]) : n \in DOMAIN x.v[k].v}
                  ELSE FieldsAnywhere(x.v[k]) : k \in DOMAIN x.v}
      [] x.t = "list" -> UNION {FieldsAnywhere(x.v[i]) : i \in 1..Len(x.v)}
      [] OTHER -> {}

\* C6: every tree returned by the sanitizer holds, at every depth, only keys
\* of the provider's allow-list, and no "$ref" and no "$defs" key anywhere,
\* the values kept under allow-listed keys included.
C6_OnlyAllowListedNoRefNoDefs ==
    (pc = "returned" /\ sanitized.e = "ok")
        => /\ FieldsAnywhere(sanitized.v) \subseteq allowedSchemaFieldsSet(impl)
           /\ KeysAnywhere(sanitized.v) \cap {"$ref", "$defs"} = {}

(***************************************************************************)
(* Error normalizer claims.                                                *)
(***************************************************************************)
\* The body already is an error envelope (as ResponseError recognises one).
IsEnvelope(body) == UnmarshalsAsError(body) /\ ErrorMessage(body) # Str("")
\* The body has the error shape of the translator's provider.
HasProviderShape(t, body) ==
    CASE t \in {"AwsOpenAI", "AWSInvokeOpenAI", "AWSBedrockTokenize"} ->
           UnmarshalsAsAWSError(body) /\ AWSMessage(body) # Str("")
      [] t \in {"AWSAnthropic", "GCPAnthropic"} ->
           UnmarshalsAsError(body) /\ ErrorMessage(body) # Str("")
      [] OTHER -> FALSE
\* The type and the message of a provider-shaped error.
ProviderType(t, headers, body) ==
    IF t \in {"AWSAnthropic", "GCPAnthropic"} THEN ErrorType(body)
    ELSE Str(HeaderValue(headers, awsErrorTypeHeaderName))
ProviderMessage(t, body) ==
    IF t \in {"AWSAnthropic", "GCPAnthropic"} THEN ErrorMessage(body) ELSE AWSMessage(body)

ChatErrTranslators == {"AwsOpenAI", "AWSInvokeOpenAI", "AWSAnthropic"}

\* C7: ResponseError applies its rules in order: with a JSON content type, a
\* body that already is a canonical error envelope is returned byte-for-byte
\* unchanged; otherwise, with a JSON content type, a body of the provider's
\* error shape has its type and message mapped into the canonical envelope,
\* with the upstream HTTP status as code.
C7_EnvelopePassesElseProviderMapped ==
    (pc = "returned" /\ tr \in ChatErrTranslators /\ IsJSONResponse(respHeaders))
        => /\ IsEnvelope(errBody) => errResult = Mutated(errBody)
           /\ (~IsEnvelope(errBody) /\ HasProviderShape(tr, errBody))
                => errResult = Mutated(Marshal(OpenAIError(
                                   ProviderType(tr, respHeaders, errBody),
                                   ProviderMessage(tr, errBody),
                                   HeaderValue(respHeaders, statusHeaderName))))

\* C8: an upstream error response that matches neither of the first two
\* rules (content type not JSON or missing, or a JSON content type with a
\* body that is no valid JSON or of no known error shape) yields no error
\* and a canonical envelope: message the whole body, type the provider's
\* generic error type, code the upstream HTTP status.
C8_OpaqueBodyWrapped ==
    (pc = "returned"
        /\ (~IsJSONResponse(respHeaders)
            \/ (~IsEnvelope(errBody) /\ ~HasProviderShape(tr, errBody))))
        => errResult = Wrapped(tr, respHeaders, errBody)

(***************************************************************************)
(* Token usage claims.                                                     *)
(***************************************************************************)
AllSet(u) == u.input.set /\ u.output.set /\ u.total.set /\ u.cached.set

\* C9: for every provider usage report, the token usage produced satisfies
\* total = input + output and cached-input <= input, where (for a provider
\* that reports cache tokens apart) input = base input + cache-creation +
\* cache-read and cached-input = cache-read + cache-creation.
C9_TotalIsInputPlusOutput ==
    pc = "returned"
        => /\ (tokenUsage.input.set /\ tokenUsage.output.set /\ tokenUsage.total.set)
                => tokenUsage.total.n = tokenUsage.input.n + tokenUsage.output.n
           /\ (tokenUsage.input.set /\ tokenUsage.cached.set)
                => tokenUsage.cached.n <= tokenUsage.input.n
           /\ usage.shape = "anthropic"
                => /\ tokenUsage.input.n = usage.InputTokens + usage.CacheCreationInputTokens
                                             + usage.CacheReadInputTokens
                   /\ tokenUsage.cached.n = usage.CacheReadInputTokens
                                              + usage.CacheCreationInputTokens

(***************************************************************************)
(* Tokenize claims.                                                        *)
(***************************************************************************)
BothSet(r) == ~r.TokenizeCompletionRequest.nil /\ ~r.TokenizeChatRequest.nil
NeitherSet(r) == r.TokenizeCompletionRequest.nil /\ r.TokenizeChatRequest.nil

\* C10: RequestBody of every tokenize translator validates the union first: a
\* request with both the chat and the completion payload set, or with
\* neither set, is rejected with an error, no headers and no body, before a
\* model, a path or a body is computed.
C10_InvalidUnionRejectedFirst ==
    (pc = "returned" /\ (BothSet(req.union) \/ NeitherSet(req.union)))
        => /\ reqResult.err \in {"invalid tokenize request: only one request type can be set",
                                 "invalid tokenize request: one request type must be set"}
           /\ Len(reqResult.newHeaders) = 0
           /\ reqResult.newBody = NoRequestBytes
           /\ requestModel = ""

\* C10 witness: a request with both payloads set has been rejected.
C10_Witness ==
    /\ pc = "returned"
    /\ BothSet(req.union)
    /\ reqResult.err = "invalid tokenize request: only one request type can be set"

MustForceUsage ==
    LET r == Unmarshal(rawBody)
    IN  /\ ~r.err /\ r.Stream /\ costConfigured
        /\ (r.StreamOptions.nil \/ ~r.StreamOptions.IncludeUsage)

\* C12: for a streaming chat completion request with cost metrics configured
\* and no usage inclusion requested, ParseBody returns a request and
\* replacement bytes that both have stream_options.include_usage = true, and
\* every RequestBody call is handed those bytes; in every other case the
\* replacement is nil and the request is as parsed.
C12_UsageForcedInRequestAndBytes ==
    (pc \in {"parsed", "failed"} /\ tr \in ChatTranslators)
        => IF MustForceUsage
           THEN /\ parsed.req.StreamOptions = Options(TRUE)
                /\ parsed.mutatedBody # NoChatBytes
                /\ ~Unmarshal(parsed.mutatedBody).err
                /\ Unmarshal(parsed.mutatedBody).StreamOptions = Options(TRUE)
                /\ \A i \in 1..Len(attempts) : attempts[i].raw = parsed.mutatedBody
           ELSE /\ parsed.mutatedBody = NoChatBytes
                /\ ~Unmarshal(rawBody).err => parsed.req = Unmarshal(rawBody)

\* C13: dereferencing leaves the source document as it was and returns a
\* tree that shares no map or list with it: a write into any map or list of
\* the output never shows in the source document.
C13_OutputSharesNoNode ==
    pc = "written" => ~Written(schemaDoc)

(***************************************************************************)
(* Dialect projection claims.                                              *)
(***************************************************************************)
\* C14: for a schema tree without "$ref" that the sanitizer accepts,
\* sanitizing the tree returned gives that tree again.
C14_SanitizeIdempotent ==
    (pc = "again" /\ "$ref" \notin KeysAnywhere(schemaDoc)) => again = sanitized

\* The "type" of the schema is a list of type names.
RootTypeList ==
    /\ "type" \in DOMAIN schemaDoc.v
    /\ schemaDoc.v["type"].t = "list"
    /\ \A i \in 1..Len(schemaDoc.v["type"].v) : schemaDoc.v["type"].v[i].t = "str"
\* "null" and one other type name
NullAndOneType(l) ==
    /\ Len(l) = 2
    /\ \E i \in 1..2 : l[i] = Str("null") /\ l[3 - i] # Str("null")
TheOtherType(l) == IF l[1] = Str("null") THEN l[2] ELSE l[1]

RootAllOfList ==
    /\ "allOf" \in DOMAIN schemaDoc.v
    /\ schemaDoc.v["allOf"].t = "list"
    /\ \A i \in 1..Len(schemaDoc.v["allOf"].v) : schemaDoc.v["allOf"].v[i].t = "map"

\* C16: an "allOf" with exactly one entry makes the node the projection of
\* that entry; an "allOf" list with no entry or more than one makes the
\* sanitizer return an InvalidSchema error.
C16_AllOfOneEntryOrInvalid ==
    (pc = "returned" /\ RootAllOfList)
        => IF Len(schemaDoc.v["allOf"].v) = 1
           THEN sanitized \in jsonSchemaToGapic(impl, schemaDoc.v["allOf"].v[1])
           ELSE sanitized.e = "InvalidSchema"

\* The "anyOf" of the schema is a list (of objects, for the sanitizer that
\* passes over a branch that is none).
RootAnyOfList ==
    /\ "anyOf" \in DOMAIN schemaDoc.v
    /\ schemaDoc.v["anyOf"].t = "list"
    /\ impl = "gemini"
         \/ \A i \in 1..Len(schemaDoc.v["anyOf"].v) : schemaDoc.v["anyOf"].v[i].t = "map"
IsNullBranch(b) == b.t = "map" /\ "type" \in DOMAIN b.v /\ b.v["type"] = Str("null")
NotNullBranch(b) == ~IsNullBranch(b)

BadFrame(k) == k \in BadPayloads \cup {Corrupt}
GoodFrame(k) == ~BadFrame(k)

\* The payloads of the events of an SSE text, in order.
IsEventSymbol(x) == x.sym \in {"data", "event+data"}
Payloads(body) ==
    LET events == SelectSeq(body, IsEventSymbol)
    IN  [i \in DOMAIN events |-> events[i].p]

Emitted(k) == \E i \in DOMAIN Payloads(out) : Payloads(out)[i] = k

\* C18: when the upstream frames of an exchange, one of which cannot be
\* decoded, are handed over whole in one ResponseBody call that ends the
\* stream, the events emitted are those of every frame that can be decoded,
\* in order (followed by the terminal sentinel where the translator appends
\* one).
C18_BadFrameDroppedStreamGoesOn ==
    (/\ pc = "closed"
     /\ calls = 1
     /\ tr \in {"AWSInvokeOpenAI", "AWSAnthropic"}
     /\ \E i \in DOMAIN wire : BadFrame(wire[i]))
        => LET good == SelectSeq(wire, GoodFrame)
           IN  Payloads(out) \in {good, good \o <<"done">>}

\* C19: the ResponseBody call that ends the stream returns the usage of the
\* chunk that carried it, whichever call that chunk was decoded in.
C19_UsageReturnedAtEndOfStream ==
    (/\ pc = "closed"
     /\ tr \in {"AwsOpenAI", "AWSInvokeOpenAI"}
     /\ Emitted("usage"))
        => respUsage = ChunkUsage

\* C20: the response model a ResponseBody call of a streaming exchange
\* returns is the model of the chunk that carried one, once such a chunk
\* was decoded, and the request model before.
C20_ResponseModelFromChunk ==
    (/\ pc \in {"streaming", "closed"}
     /\ calls > 0
     /\ tr \in {"AwsOpenAI", "AWSInvokeOpenAI"})
        => respModel = IF Emitted("model") THEN ChunkModel ELSE RequestModel

(***************************************************************************)
(* The non-streaming exchange.                                             *)
(***************************************************************************)
\* The request model the spec has RequestBody record: the override when one
\* is configured, else the model the canonical request names.
RecordedRequestModel ==
    IF modelNameOverride # "" THEN modelNameOverride ELSE parsed.originalModel

RECURSIVE Slashes(_)
Slashes(path) ==
    IF path = <<>> THEN 0
    ELSE (IF Head(path) = "/" THEN 1 ELSE 0) + Slashes(Tail(path))

\* C22: whatever the model name (the override when one is configured), the
\* path RequestBody generates has as many segments as its template: a "/"
\* of the model name is escaped in it.
C22_PathKeepsItsSegments ==
    pc = "returned"
        => Slashes(reqResult.newHeaders[1][2]) =
              IF tr = "AwsOpenAIDeployment" THEN Slashes(DeploymentTemplate(<<>>, "v1"))
              ELSE Slashes(InvokeTemplate(<<>>, req.Stream))

(***************************************************************************)
(* The model override.                                                     *)
(***************************************************************************)
\* The model a wire request body names, and the model the canonical request
\* names.
WireBodyModel(body) == IF tr = "OpenAITokenize" THEN body.model ELSE Unmarshal(body).Model
CanonicalModel ==
    IF tr = "OpenAITokenize" THEN OriginalOf(req.union).model ELSE parsed.originalModel

IsNilBody(body) == body \in {NoChatBytes, NoRequestBytes}

\* C24: a RequestBody call made without forceBodyMutation for which the
\* wire body is the body received (no override is configured) returns a nil
\* newBody.
C24_NilBodyWhenNothingToChange ==
    \A i \in DOMAIN attempts :
        (/\ tr \in {"AwsOpenAI", "OpenAITokenize"}
         /\ attempts[i].err = "nil"
         /\ ~attempts[i].forceBodyMutation
         /\ modelNameOverride = "")
            => IsNilBody(attempts[i].newBody)

(***************************************************************************)
(* The content-length header.                                              *)
(***************************************************************************)
\* The content-length headers among the headers a call returned.
ContentLengths(headers) ==
    {headers[i][2] : i \in {j \in DOMAIN headers : headers[j][1] = contentLengthHeaderName}}

IsProviderResponse(body) ==
    body.k = "json" /\ body.doc.t = "map" /\ FitsResponse(body.doc)

\* C26: ResponseBody of a non-streaming exchange returns an error, no body
\* and no token usage for every upstream body that is not the provider's
\* response.
C26_UndecodableBodyIsAnError ==
    (pc = "answered" /\ ~IsProviderResponse(upstream))
        => /\ response.err # "nil"
           /\ response.newBody = NoBody
           /\ response.tokenUsage = EmptyTokenUsage


(***************************************************************************)
(* Read failure claims.                                                    *)
(***************************************************************************)
\* ResponseError reads the body: every translator but the OpenAI tokenize
\* one on a JSON or missing content type, which returns at once.
ReadsTheBody(t, headers) ==
    ~(t = "OpenAITokenize"
        /\ ~(contentTypeHeaderName \in DOMAIN headers
             /\ ~ContainsJSON(headers[contentTypeHeaderName])))

\* C27: when reading the upstream error body fails, ResponseError returns an
\* error, no headers and no body, and no canonical error envelope.
C27_ReadFailureIsAnInternalError ==
    (pc = "returned" /\ ReadFails(errBody) /\ ReadsTheBody(tr, respHeaders))
        => /\ errResult.err # "nil"
           /\ errResult.newHeaders = <<>>
           /\ errResult.newBody = NoBody


(***************************************************************************)
(* Tokenize routing path claims.                                           *)
(***************************************************************************)
\* the value of the path header of a RequestBody result
PathOf(headers) == headers[1][2].text
\* strings.Contains(path, word) for a word that is no part of the fixed text
\* of the template: the word is the publisher, the model or the method of
\* the path.
GCPPathContains(path, word) ==
    \E publisher \in {gcpModelPublisherAnthropic, gcpModelPublisherGoogle},
       model \in ModelNames \cup {"override-model", "count-tokens"},
       method \in {gcpMethodRawPredict, gcpMethodCountTokens} :
        /\ path = buildGCPModelPathSuffix(publisher, model, method)
        /\ word \in {publisher, model, method}

\* C28: the routing path RequestBody of the GCP Anthropic tokenize
\* translator returns contains the request model name, or the override when
\* one is configured, and the rawPredict method.
C28_GCPAnthropicPathNamesModel ==
    (pc = "returned" /\ tr = "GCPAnthropicTokenize" /\ reqResult.err = "nil")
        => /\ GCPPathContains(PathOf(reqResult.newHeaders),
                              IF modelNameOverride # "" THEN modelNameOverride
                              ELSE req.union.TokenizeChatRequest.Model)
           /\ GCPPathContains(PathOf(reqResult.newHeaders), gcpMethodRawPredict)

(***************************************************************************)
(* Tokenize body claims.                                                   *)
(***************************************************************************)
\* the body is an object that has the member
Carries(body, key) == body.k = "json" /\ body.doc.t = "map" /\ key \in DOMAIN body.doc.v

\* C29: TokenizeEndpointSpec.ParseBody rejects a body that carries both
\* `messages` and `prompt` with a validation error; it is never parsed as
\* one of the two request types.
C29_BothPayloadsRejected ==
    (pc = "parsed" /\ Carries(rawBody, "messages") /\ Carries(rawBody, "prompt"))
        => parsed.err # "nil"

(***************************************************************************)
(* Determinism claims.                                                     *)
(***************************************************************************)
\* C30: two calls of the sanitizer on the same schema document return the
\* same tree or the same error, whatever order the keys of a map are
\* visited in.
C30_SanitizeDeterministic ==
    pc = "twice" => again = sanitized

=============================================================================
